---- MODULE Spec2Model ----
\* The end-to-end test runners of hello-fargate (workflow runner in its three
\* trigger modes, one-off task runner, batch array-job runner, SQS round-trip
\* runner with the queue worker) as one state machine.  One behaviour is one
\* run of one runner: Init picks the scenario, and only that runner's
\* operations and its backend's transitions are enabled.
EXTENDS Integers, Sequences, FiniteSets, TLC

\* ---------------------------------------------------------------- constants

\* executeViaEventBridge: maxAttempts, the initial pause, the pause between
\* list calls and the recency test, all in seconds.
EbMaxAttempts == 10
EbInitialSleep == 2
EbAttemptSleep == 3
EbRecentSeconds == 30

\* executeViaScheduledTrigger: maxAttempts, the pause between list calls, the
\* buffer added to the wait and the two ends of the acceptance interval.
SchedMaxAttempts == 20
SchedAttemptSleep == 5
SchedWaitBuffer == 30
SchedBufferBefore == 30
SchedBufferAfter == 120

\* Poll interval of the batch runner and of the SQS runner, seconds.
PollInterval == 5

\* maxReceiveCount of the jobs queue's redrive policy.
MaxReceiveCount == 3

\* VisibilityTimeout of the worker's ReceiveMessage call and of the jobs
\* queue, seconds, and the step in which the model lets it pass.
VisibilityTimeout == 300
VisibilityTick == 150

\* The -timeout flag of the batch runner and of the SQS runner (seconds; the
\* defaults are 300 and 120, scaled down to a few poll intervals), and the
\* -scheduled-delay flag (minutes).
BatchTimeout == 11
SqsTimeout == 11
ScheduledDelayMinutes == 1

\* Value of a container's ExitCode pointer when it is nil.
NoExitCode == -1

Scenarios ==
    {"direct", "eventbridge", "scheduled", "oneoff", "batch", "sqs", "webapp", "jwt", "sc",
     "statemachine", "e2e", "worker", "server", "batchworker", "e2e_scripts"}
WorkflowScenarios == {"direct", "eventbridge", "scheduled"}

SubmitOps ==
    {"StartExecution", "PutEvents", "PutRule", "PutTargets",
     "RunTask", "SubmitJob", "SendMessage"}

\* Step Functions execution statuses (types.ExecutionStatus).
ExecTerminal == {"SUCCEEDED", "FAILED", "TIMED_OUT", "ABORTED"}

\* The executions of the state machine: the one this run causes ("new") and
\* one started by somebody else ("other").
ExecIds == {"new", "other"}

\* Start times of the unrelated execution, seconds relative to the time the
\* event was sent (eventbridge mode) or to scheduleTime (scheduled mode).
OtherStartsEb == {-40, -28, -27, -5}
OtherStartsSched == {-30, -29, 119, 120}

\* Second within the minute at which the scheduled-mode runner starts, and
\* the delay between a rule's fire time and the execution's StartDate.
StartSeconds == {0, 30, 45}
FireLatencies == {0, 2}

\* Exit codes a container may report.
ContainerExitCodes == {0, 1}

\* The -array-size flag of the batch runner (its default, and the value the
\* end-to-end script passes).
ArraySize == 2

\* The integers whose decimal text the model scans: from a negative one to
\* one past every list of items.
ScannedInts == (0 - 1)..(ArraySize + 1)

\* A field of a JSON object that is not there.
Absent == "<absent>"

\* The value of an environment variable holding JSON text: unset (or empty),
\* text that is not a JSON object, or an object with some of the fields
\* message, items and data.
EnvJson(isSet, isObject, message, items, data) ==
    [set |-> isSet, object |-> isObject, message |-> message, items |-> items, data |-> data]

UnsetEnv == EnvJson(FALSE, FALSE, Absent, <<>>, Absent)
EmptyObject == EnvJson(TRUE, TRUE, Absent, <<>>, Absent)
Malformed == EnvJson(TRUE, FALSE, Absent, <<>>, Absent)

\* Values of a data field: a JSON object, and a JSON string.
ObjectData == "{\"key\": \"value\"}"
StringData == "\"text\""

\* Values of JOB_INPUT: the one the end-to-end script passes, the same with
\* the items swapped, one with fewer items than children, one without items,
\* none, and text that is not JSON.
JobInputs ==
    {EnvJson(TRUE, TRUE, "Hello from E2E test!", <<"item-A", "item-B">>, Absent),
     EnvJson(TRUE, TRUE, "Hello from E2E test!", <<"item-B", "item-A">>, ObjectData),
     EnvJson(TRUE, TRUE, Absent, <<"item-A">>, Absent),
     EnvJson(TRUE, TRUE, "Hello from E2E test!", <<>>, Absent),
     UnsetEnv, Malformed}

\* authenticateViaCognito: maxRedirects, and the HTTP statuses the test
\* looks for (http.StatusFound, http.StatusOK).
MaxRedirects == 10
StatusFound == 302
StatusOK == 200

\* Statuses a server may answer with.
HttpStatuses == {StatusOK, StatusFound, 500}

\* Values of TASK_INPUT: with and without message and data, with data that
\* is not an object, none, and text that is not JSON.
TaskInputs ==
    {EnvJson(TRUE, TRUE, "Hello", <<>>, ObjectData),
     EnvJson(TRUE, TRUE, "Hello", <<>>, Absent),
     EnvJson(TRUE, TRUE, "Hello", <<>>, StringData),
     EnvJson(TRUE, TRUE, "", <<>>, ObjectData),
     EmptyObject, UnsetEnv, Malformed}
\* http.StatusUnauthorized, and the statuses the load balancer of the JWT
\* test may answer with.
StatusUnauthorized == 401
JwtStatuses == {StatusOK, StatusUnauthorized, 500}
\* Frontend testHandler: the request count used when the requests parameter
\* is missing or not positive (20 in the source, scaled down), and the number
\* of distinct backends needed for success.
DefaultRequests == 4
MinUniqueBackends == 2

\* Values of the Service Connect test runner's -requests flag.
RequestFlags == {0, 2}

\* Server IDs of the backend tasks, and the ways a request to the backend
\* fails (no response or unreadable body, a status other than 200, a body
\* that is not JSON).
Backends == {"backend-1", "backend-2", "backend-3"}
BackendFailures == {"error", "status 500", "not json"}
\* MaxConcurrency of the state machine's Map state.
MaxConcurrency == 5

\* A JSON value handed to a task in TASK_INPUT: whether it is an object, and
\* the keys it has.
WorkflowJson(isObject, keys) == [object |-> isObject, keys |-> keys]

\* Execution inputs: the default {}, an object as in the testing guide, an
\* object with a task_input key, and a JSON array.
ExecutionInputs ==
    {WorkflowJson(TRUE, {}), WorkflowJson(TRUE, {"startMessage"}),
     WorkflowJson(TRUE, {"task_input"}), WorkflowJson(FALSE, {})}
\* Argument lists of the webapp run-e2e.sh, and the exit statuses of the
\* commands it runs.
E2eArgLists == {<<>>, <<"--no-cleanup">>, <<"--verbose">>, <<"--verbose", "--no-cleanup">>}
CommandStatuses == {0, 1, 2}

\* The commands of run-e2e.sh that end the script under set -e when they
\* fail, in order.
E2eCommands == <<"chmod", "apply.sh", "terraform output", "go build", "webtest">>
\* time.Sleep of the readiness waiters, seconds (waitForService, line 146).
WaitSleep == 5

\* The timeout waitForService is called with, seconds.
ServiceWaitTimeout == 60

\* The -timeout flag of the Service Connect runner and of the JWT runner
\* (seconds; the default is 300, scaled down to two sleeps of a waiter).
ContextTimeout == 10

\* The task counts waitForServices is called with.
BackendCount == 2
FrontendCount == 1

\* The waiters of the runners.
Waiters == {"waitForService", "waitForServices", "waitForHealth"}

\* A waiter that has not looked yet.
NoObservation == [none |-> TRUE]
\* The most ReceiveMessage calls a worker that was not told to stop makes.
MaxPolls == 3

\* The messages in the queue of the worker alone.
WorkerMessages == {"m1", "m2"}

\* A message body, by what json.Unmarshal makes of it: whether it decodes
\* into a JobMessage without error, whether it is a JSON object at all, and
\* the job_id that was decoded ("" if none).
Body(typed, generic, jobId) == [typed |-> typed, generic |-> generic, jobId |-> jobId]

\* Bodies: a job, a job without job_id, an object whose action has the wrong
\* type (job_id is still decoded), and text that is not a JSON object.
MessageBodies ==
    {Body(TRUE, TRUE, "job-1"), Body(TRUE, TRUE, ""),
     Body(FALSE, TRUE, "job-1"), Body(FALSE, FALSE, "")}
\* The most requests the HTTP server of the model has in flight.
MaxInFlight == 2
\* Argument lists of the oneoff and batchjobs run-e2e.sh, as in their usage
\* lines.
ScriptArgLists == {<<>>, <<"--no-cleanup">>}

\* The steps of the oneoff and batchjobs run-e2e.sh up to the test, in
\* order: the sanity checks (and Step 0), apply.sh, the terraform output
\* calls, the build of the test runner, the test runner.
ScriptCommands == <<"checks", "apply.sh", "terraform output", "go build", "test-runner">>

VARIABLES
    scenario,     \* which runner this run is
    pc,           \* the runner's position
    exitCode,     \* process exit status, -1 while running
    err,          \* why the runner ended ("" on success or while running)
    lastStatus,   \* last status the wait loop observed
    handle,       \* executionArn / taskArn / jobID the runner holds ("" if none)
    calls,        \* number of calls made of each non-idempotent submit operation
    now,          \* the clock the runner reads, seconds
    t0,           \* reference time: event sent / scheduleTime / startTime
    attempt,      \* loop variable i of the correlation loop
    listCalls,    \* ListExecutions calls made by the correlation loop
    sleeps,       \* sleeps taken between correlation attempts
    execs,        \* backend: the state machine's executions
    eventPending, \* backend: the trigger has not yet started its execution
    ruleExists,   \* backend: the temporary rule exists
    targetExists, \* backend: the temporary rule has its target
    ebLog,        \* cleanup calls made on the temporary rule, with outcome
    taskStatus,   \* backend: lastStatus of the ECS task
    containers,   \* backend: exit code of each container of the task
    jobStatus,    \* backend: status of the Batch array job
    msgState,     \* backend: where the SQS message is
    receiveCount, \* backend: how often the message was received
    workerPc,     \* the queue worker's position
    logEvents,    \* the worker's log stream
    deleteFailed, \* the worker's last DeleteMessage returned an error
    lastCheck,    \* how the runner's last checkJobInLogs call went ("" before any)
    fetched,      \* log streams whose events the batch runner's fetchLogs printed
    outputRead,   \* the workflow runner has read and printed the execution's output
    jobInput,     \* the JOB_INPUT the batch runner passes to the array job
    children,     \* backend: status and printed output of each child of the array job
    taskInput,    \* the TASK_INPUT of the one-off task's container
    taskOutput,   \* backend: the output the one-off task printed
    httpStatus,   \* status of the last HTTP response the login test received (0: none)
    loginBody,    \* the login page the login test received
    csrfToken,    \* the CSRF token the login test extracted ("" if none)
    redirectCount, \* redirectCount of the redirect chain
    webLog,       \* the requests the login test has sent, in order
    cookieSet,    \* the cookie jar holds the load balancer's session cookie
    profileBody,  \* body of the answer to the authenticated profile request
    jwtLog,       \* the requests the JWT test has sent, in order, with their answers
    accessToken,  \* the access token the JWT test holds ("" if none)
    requestFlag,  \* the -requests flag of the Service Connect test runner
    answers,      \* frontend: how each request to the backend went, in order
    distribution, \* frontend: testHandler's distribution map
    successCount, \* frontend: testHandler's successCount
    failureCount, \* frontend: testHandler's failureCount
    testResult,   \* the TestResponse the frontend answered with
    hiddenFor,    \* backend: seconds since the message was last received
    sfnInput,     \* the input of the state machine execution
    sfnState,     \* the state the execution is in ("" before it starts)
    sfnStatus,    \* the execution's status
    taskRuns,     \* the tasks run for the execution: state, TASK_INPUT, report, output
    iterations,   \* the Map state's iterations: item and index of its task in taskRuns
    e2eArgs,      \* the arguments run-e2e.sh was invoked with
    cleanupFlag,  \* run-e2e.sh: its CLEANUP variable
    e2eStep,      \* run-e2e.sh: index in E2eCommands of the last command run (0: none)
    commandStatus, \* run-e2e.sh: exit status of the last command run
    destroyRuns,  \* run-e2e.sh: how often destroy.sh was run
    surfacedStatus, \* the job status the batch runner printed with its timeout ("" if none)
    observed,     \* what each waiter met when it last looked
    ready,        \* the waiters that returned nil
    mainPc,       \* worker alone: where main is
    ctxDone,      \* worker alone: cancel() was called
    messages,     \* worker alone: the queue's messages
    batch,        \* worker alone: messages of the last receive still to process
    polls,        \* worker alone: ReceiveMessage calls made
    lateCalls,    \* worker alone: ReceiveMessage calls made with a cancelled context
    serverMain,   \* HTTP server: where main is
    shutdownPc,   \* HTTP server: where the signal goroutine is
    inFlight,     \* HTTP server: requests being handled
    dropped,      \* HTTP server: requests cut off by the end of the process
    arrayIndexEnv, \* batchworker alone: AWS_BATCH_JOB_ARRAY_INDEX
    workerOutput, \* batchworker alone: the output printed
    itemsRead     \* batchworker alone: the indexes at which input.Items was read

runnerVars == <<scenario, pc, exitCode, err, lastStatus, handle, calls>>
timeVars == <<now, t0>>
corrVars == <<attempt, listCalls, sleeps>>
wfVars == <<execs, eventPending>>
ruleVars == <<ruleExists, targetExists, ebLog>>
taskVars == <<taskStatus, containers>>
sqsVars == <<msgState, receiveCount, workerPc, logEvents, deleteFailed>>
arrayVars == <<jobInput, children>>
taskIoVars == <<taskInput, taskOutput>>
webVars == <<httpStatus, loginBody, csrfToken, redirectCount, webLog, cookieSet, profileBody>>
backendVars == <<wfVars, ruleVars, taskVars, jobStatus, sqsVars>>

jwtVars == <<jwtLog, accessToken>>
scVars == <<requestFlag, answers, distribution, successCount, failureCount, testResult>>
queueVars == <<hiddenFor>>
sfnVars == <<sfnInput, sfnState, sfnStatus, taskRuns, iterations>>
e2eVars == <<e2eArgs, cleanupFlag, e2eStep, commandStatus, destroyRuns>>
diagVars == <<surfacedStatus>>
waitVars == <<observed, ready>>
loopVars == <<mainPc, ctxDone, messages, batch, polls, lateCalls>>
srvVars == <<serverMain, shutdownPc, inFlight, dropped>>
bwVars == <<arrayIndexEnv, workerOutput, itemsRead>>
obsVars == <<lastCheck, fetched, outputRead>>

vars == <<runnerVars, timeVars, corrVars, backendVars, obsVars, arrayVars, taskIoVars, webVars,
         jwtVars,
         scVars,
         queueVars,
         sfnVars,
         e2eVars,
         diagVars,
         waitVars,
         loopVars,
         srvVars,
         bwVars>>

\* ---------------------------------------------------------------- helpers

NoExec == [start |-> 0, status |-> "ABSENT"]

\* The login page as the token extraction sees it: how the _csrf input is
\* written, and the value it carries.
LoginPage(form, token) == [form |-> form, token |-> token]

\* No login page has been received.
NoPage == LoginPage("", "")

\* The body of a profile response as testAuthenticatedProfile sees it: whether
\* it parses as a JSON object, and the JSON text of three of its fields.
ProfileBody(isJson, userId, claims, hasToken) ==
    [json |-> isJson, user_id |-> userId, claims |-> claims, has_token |-> hasToken]

\* No profile response has been received.
NoBody == ProfileBody(FALSE, Absent, Absent, Absent)

\* A one-off task that has printed no output.
TaskNoOutput == [status |-> "", message |-> <<>>, input |-> <<>>]

\* A batch job that has printed no output.
NoOutput == [status |-> "", message |-> <<>>, arrayIndex |-> "", input |-> Absent]

\* All orderings of a finite set, as sequences without repetition.
Orderings(S) ==
    {q \in [1..Cardinality(S) -> S] : \A i, j \in 1..Cardinality(S) : q[i] = q[j] => i = j}

\* log.Fatalf / os.Exit / return from main: the process ends with `code`.
Exit(code, cause) ==
    /\ pc' = "exit"
    /\ exitCode' = code
    /\ err' = cause

Called(op) == calls' = [calls EXCEPT ![op] = @ + 1]

\* An HTTP exchange as a test function sees it: the request, whether
\* client.Do returned a response, its status, and what the body holds.
Exchange(req, ok, status, body) == [req |-> req, ok |-> ok, status |-> status, body |-> body]

\* The body of a response: whether it parses as a JSON object, and the fields
\* the tests look at.
JsonBody(isJson, fields) == [json |-> isJson, fields |-> fields]

\* No TestResponse has been produced.
NoResult ==
    [total_requests |-> 0, success_count |-> 0, failure_count |-> 0, unique_backends |-> 0,
     distribution |-> <<>>, success |-> FALSE, produced |-> FALSE]

\* A message that was not processed yet.
NoJobResult == [job_id |-> "", status |-> "", message |-> ""]

\* Values of AWS_BATCH_JOB_ARRAY_INDEX: unset, text that is no number, and
\* the decimal text of an integer below, inside and beyond the list of items.
ArrayIndexValues == {"", "abc"} \cup {ToString(n) : n \in ScannedInts}

Init ==
    /\ scenario \in Scenarios
    /\ pc = "start"
    /\ exitCode = -1
    /\ err = ""
    /\ lastStatus = ""
    /\ handle = ""
    /\ calls = [op \in SubmitOps |-> 0]
    /\ now \in (IF scenario = "scheduled" THEN StartSeconds ELSE {0})
    /\ t0 = 0
    /\ attempt = 0
    /\ listCalls = 0
    /\ sleeps = 0
    /\ execs \in
         {[new |-> NoExec, other |-> o] :
            o \in {NoExec} \cup
                  (IF scenario = "eventbridge"
                   THEN {[start |-> s, status |-> "RUNNING"] : s \in OtherStartsEb}
                   ELSE IF scenario = "scheduled"
                   THEN {[start |-> now + 60 * ScheduledDelayMinutes + s, status |-> "RUNNING"] :
                            s \in OtherStartsSched}
                   ELSE {})}
    /\ eventPending = FALSE
    /\ ruleExists = FALSE
    /\ targetExists = FALSE
    /\ ebLog = <<>>
    /\ taskStatus = "NONE"
    /\ containers \in (IF scenario = "oneoff"
                       THEN {<<NoExitCode>>, <<NoExitCode, NoExitCode>>}
                       ELSE {<<>>})
    /\ jobStatus = "NONE"
    /\ msgState = "none"
    /\ receiveCount = 0
    /\ workerPc = "idle"
    /\ logEvents = <<>>
    /\ deleteFailed = FALSE
    /\ lastCheck = ""
    /\ fetched = {}
    /\ outputRead = FALSE
    /\ jobInput \in (IF scenario \in {"batch", "batchworker"} THEN JobInputs ELSE {UnsetEnv})
    /\ children = <<>>
    /\ taskInput \in (IF scenario = "oneoff" THEN TaskInputs ELSE {UnsetEnv})
    /\ taskOutput = TaskNoOutput
    /\ httpStatus = 0
    /\ loginBody = NoPage
    /\ csrfToken = ""
    /\ redirectCount = 0
    /\ webLog = <<>>
    /\ cookieSet = FALSE
    /\ profileBody = NoBody
    /\ jwtLog = <<>>
    /\ accessToken = ""
    /\ requestFlag \in (IF scenario = "sc" THEN RequestFlags ELSE {0})
    /\ answers = <<>>
    /\ distribution = <<>>
    /\ successCount = 0
    /\ failureCount = 0
    /\ testResult = NoResult
    /\ hiddenFor = 0
    /\ sfnInput \in (IF scenario = "statemachine" THEN ExecutionInputs ELSE {WorkflowJson(TRUE, {})})
    /\ sfnState = ""
    /\ sfnStatus = "NONE"
    /\ taskRuns = <<>>
    /\ iterations = <<>>
    /\ e2eArgs \in (IF scenario = "e2e" THEN E2eArgLists
                    ELSE IF scenario = "e2e_scripts" THEN ScriptArgLists
                    ELSE {<<>>})
    /\ cleanupFlag = TRUE
    /\ e2eStep = 0
    /\ commandStatus = 0
    /\ destroyRuns = 0
    /\ surfacedStatus = ""
    /\ observed = [w \in Waiters |-> NoObservation]
    /\ ready = {}
    /\ mainPc = "select"
    /\ ctxDone = FALSE
    /\ messages \in
         (IF scenario = "worker"
          THEN {[m \in WorkerMessages |->
                   [body |-> IF m = "m1" THEN b ELSE Body(TRUE, TRUE, "job-2"),
                    state |-> "visible", receives |-> 0, failures |-> 0,
                    result |-> NoJobResult, returned |-> ""]] : b \in MessageBodies}
          ELSE {<<>>})
    /\ batch = <<>>
    /\ polls = 0
    /\ lateCalls = 0
    /\ serverMain = "serving"
    /\ shutdownPc = "waiting"
    /\ inFlight = 0
    /\ dropped = 0
    /\ arrayIndexEnv \in (IF scenario = "batchworker" THEN ArrayIndexValues ELSE {""})
    /\ workerOutput = NoOutput
    /\ itemsRead = {}

\* ------------------------------------------------- workflow runner: backend

Exists(e) == execs[e].status # "ABSENT" /\ execs[e].start <= now

\* Terminal statuses an execution may take.
TerminalOf(e) == IF e = "new" THEN ExecTerminal ELSE {"SUCCEEDED"}

\* An execution of the state machine ends.
ExecFinishes ==
    /\ scenario \in WorkflowScenarios
    /\ pc # "exit"
    /\ \E e \in ExecIds :
         /\ Exists(e)
         /\ execs[e].status = "RUNNING"
         /\ \E st \in TerminalOf(e) :
              execs' = [execs EXCEPT ![e].status = st]
    /\ UNCHANGED <<runnerVars, timeVars, corrVars, eventPending, ruleVars,
                   taskVars, jobStatus, sqsVars>>
    /\ UNCHANGED <<obsVars, arrayVars, taskIoVars, webVars>>
    /\ UNCHANGED <<jwtVars, scVars, queueVars, sfnVars, e2eVars, diagVars, waitVars, loopVars,
                   srvVars>>
    /\ UNCHANGED bwVars

\* The test rule matches the event sent by the runner and starts an execution.
EventStartsExecution ==
    /\ scenario = "eventbridge"
    /\ pc # "exit"
    /\ eventPending
    /\ eventPending' = FALSE
    /\ execs' = [execs EXCEPT !.new = [start |-> now, status |-> "RUNNING"]]
    /\ UNCHANGED <<runnerVars, timeVars, corrVars, ruleVars, taskVars, jobStatus, sqsVars>>
    /\ UNCHANGED <<obsVars, arrayVars, taskIoVars, webVars, jwtVars, scVars, queueVars,
                   sfnVars, e2eVars, diagVars, waitVars>>
    /\ UNCHANGED <<loopVars, srvVars, bwVars>>

\* Fire time of cron(Minute Hour Day Month ? Year): second 0 of that minute.
FireTime(scheduleTime) == 60 * (scheduleTime \div 60)

\* The temporary rule fires (once) and starts an execution through its target.
RuleFires ==
    /\ scenario = "scheduled"
    /\ pc # "exit"
    /\ ruleExists /\ targetExists
    /\ execs.new.status = "ABSENT"
    /\ now >= FireTime(t0)
    /\ \E lat \in FireLatencies :
         execs' = [execs EXCEPT !.new = [start |-> FireTime(t0) + lat, status |-> "RUNNING"]]
    /\ UNCHANGED <<runnerVars, timeVars, corrVars, eventPending, ruleVars,
                   taskVars, jobStatus, sqsVars>>
    /\ UNCHANGED <<obsVars, arrayVars, taskIoVars, webVars>>
    /\ UNCHANGED <<jwtVars, scVars, queueVars, sfnVars, e2eVars, diagVars, waitVars, loopVars,
                   srvVars>>
    /\ UNCHANGED bwVars

\* ------------------------------------------------- workflow runner: main

\* Mutant of StartFailed: main starts the execution again after an error.
StartFailedRetried(cause) ==
    /\ pc' = "start"
    /\ UNCHANGED <<scenario, exitCode, err, lastStatus, handle>>

\* Mutant of StartFailed: an execute* function returns a handle with its error.
StartFailedWithHandle(cause) ==
    /\ Exit(1, cause)
    /\ handle' = "new"
    /\ UNCHANGED <<scenario, lastStatus>>

\* main, lines 113-115: an execute* function returned an error.
StartFailed(cause) ==
    /\ Exit(1, cause)
    /\ UNCHANGED <<scenario, lastStatus, handle>>

\* executeDirectly.
ExecuteDirectly ==
    /\ scenario = "direct"
    /\ pc = "start"
    /\ Called("StartExecution")
    /\ \/ /\ StartFailed("start_execution_failed")
          /\ UNCHANGED execs
       \/ /\ execs' = [execs EXCEPT !.new = [start |-> now, status |-> "RUNNING"]]
          /\ handle' = "new"
          /\ pc' = "monitor"
          /\ UNCHANGED <<scenario, exitCode, err, lastStatus>>
    /\ UNCHANGED <<timeVars, corrVars, eventPending, ruleVars, taskVars, jobStatus, sqsVars>>
    /\ UNCHANGED <<obsVars, arrayVars, taskIoVars, webVars, jwtVars, scVars, queueVars,
                   sfnVars, e2eVars, diagVars, waitVars>>
    /\ UNCHANGED <<loopVars, srvVars, bwVars>>

\* monitorExecution, one iteration of the wait loop up to the sleep.
MonitorDescribe ==
    /\ scenario \in WorkflowScenarios
    /\ pc = "monitor"
    /\ \/ /\ Exit(1, "describe_error")
          /\ UNCHANGED lastStatus
       \/ /\ lastStatus' = execs[handle].status
          /\ pc' = IF lastStatus' \in ExecTerminal THEN "finished" ELSE "monitor_sleep"
          /\ UNCHANGED <<exitCode, err>>
    /\ UNCHANGED <<scenario, handle, calls, timeVars, corrVars, backendVars>>
    /\ UNCHANGED <<obsVars, arrayVars, taskIoVars, webVars, jwtVars, scVars, queueVars,
                   sfnVars, e2eVars, diagVars, waitVars>>
    /\ UNCHANGED <<loopVars, srvVars, bwVars>>

\* monitorExecution, time.Sleep(5 * time.Second); the loop reads no clock.
MonitorSleep ==
    /\ scenario \in WorkflowScenarios
    /\ pc = "monitor_sleep"
    /\ pc' = "monitor"
    /\ UNCHANGED <<scenario, exitCode, err, lastStatus, handle, calls,
                   timeVars, corrVars, backendVars>>
    /\ UNCHANGED <<obsVars, arrayVars, taskIoVars, webVars>>
    /\ UNCHANGED <<jwtVars, scVars, queueVars, sfnVars, e2eVars, diagVars, waitVars, loopVars,
                   srvVars>>
    /\ UNCHANGED bwVars

\* Mutant of OutputIsRead: the output is read whatever the final status.
OutputIsReadAlways(status) == TRUE

\* Line 418: lastStatus == types.ExecutionStatusSucceeded.
OutputIsRead(status) == status = "SUCCEEDED"

\* monitorExecution after the loop, lines 415-442: on success the execution
\* is described again and its output printed.
MonitorFinish ==
    /\ scenario \in WorkflowScenarios
    /\ pc = "finished"
    /\ IF OutputIsRead(lastStatus)
       THEN \/ /\ Exit(1, "describe_error")
               /\ UNCHANGED outputRead
            \/ /\ Exit(0, "")
               /\ outputRead' = TRUE
       ELSE /\ Exit(1, "execution_failed")
            /\ UNCHANGED outputRead
    /\ UNCHANGED <<scenario, lastStatus, handle, calls, timeVars, corrVars, backendVars>>
    /\ UNCHANGED <<lastCheck, fetched, arrayVars, taskIoVars, webVars, jwtVars, scVars,
                   queueVars, sfnVars, e2eVars, diagVars, waitVars>>
    /\ UNCHANGED <<loopVars, srvVars, bwVars>>

\* ------------------------------------------------- correlation, event mode

Min(S) == CHOOSE m \in S : \A n \in S : m <= n

\* The first element of `order` that is in `accepted`, "" when there is none:
\* the scan returns at the first execution that passes the test.
FirstAccepted(order, accepted) ==
    LET hits == {i \in DOMAIN order : order[i] \in accepted}
    IN IF hits = {} THEN "" ELSE order[Min(hits)]

\* Mutant of StartedRecently: the recency test in minutes, not seconds.
StartedRecentlyMinutes(e) == now - execs[e].start < EbRecentSeconds * 60

\* Line 206: time.Since(*exec.StartDate) < 30*time.Second.
StartedRecently(e) == now - execs[e].start < EbRecentSeconds

\* Mutant of SleepsBeforeRetry: the sleep is taken after the last attempt too.
SleepsAfterEveryAttempt(i, maxAttempts) == i < maxAttempts

\* Lines 213 and 379: i < maxAttempts-1.
SleepsBeforeRetry(i, maxAttempts) == i < maxAttempts - 1

\* Lines 193 and 359: the loop condition i < maxAttempts.
LoopContinues(i, maxAttempts) == i < maxAttempts

\* Lines 193 and 219: i++, then the next attempt or the error return.
EbNextIteration ==
    /\ attempt' = attempt + 1
    /\ IF LoopContinues(attempt + 1, EbMaxAttempts)
       THEN /\ pc' = "eb_list"
            /\ UNCHANGED <<scenario, exitCode, err, lastStatus, handle>>
       ELSE StartFailed("CorrelationTimeout")

\* executeViaEventBridge up to the first sleep: PutEvents.
EbPutEvents ==
    /\ scenario = "eventbridge"
    /\ pc = "start"
    /\ Called("PutEvents")
    /\ \/ /\ StartFailed("put_events_failed")
          /\ UNCHANGED <<eventPending, t0>>
       \/ /\ StartFailed("put_events_failed_entry")
          /\ UNCHANGED <<eventPending, t0>>
       \/ /\ eventPending' = TRUE
          /\ t0' = now
          /\ pc' = "eb_initial_sleep"
          /\ UNCHANGED <<scenario, exitCode, err, lastStatus, handle>>
    /\ UNCHANGED <<now, corrVars, execs, ruleVars, taskVars, jobStatus, sqsVars>>
    /\ UNCHANGED <<obsVars, arrayVars, taskIoVars, webVars, jwtVars, scVars, queueVars,
                   sfnVars, e2eVars, diagVars, waitVars>>
    /\ UNCHANGED <<loopVars, srvVars, bwVars>>

\* time.Sleep(2 * time.Second) before the first list call.
EbFirstSleep ==
    /\ scenario = "eventbridge"
    /\ pc = "eb_initial_sleep"
    /\ now' = now + EbInitialSleep
    /\ pc' = "eb_list"
    /\ UNCHANGED <<scenario, exitCode, err, lastStatus, handle, calls, t0,
                   corrVars, backendVars>>
    /\ UNCHANGED <<obsVars, arrayVars, taskIoVars, webVars>>
    /\ UNCHANGED <<jwtVars, scVars, queueVars, sfnVars, e2eVars, diagVars, waitVars, loopVars,
                   srvVars>>
    /\ UNCHANGED bwVars

\* One attempt of the correlation loop: ListExecutions (RUNNING only) and
\* the scan of its result in the order returned.
EbListExecutions ==
    /\ scenario = "eventbridge"
    /\ pc = "eb_list"
    /\ listCalls' = listCalls + 1
    /\ \/ /\ StartFailed("list_error")
          /\ UNCHANGED attempt
       \/ \E order \in Orderings({e \in ExecIds : Exists(e) /\ execs[e].status = "RUNNING"}) :
            LET found == FirstAccepted(order, {e \in ExecIds : StartedRecently(e)})
            IN IF found # ""
               THEN /\ handle' = found
                    /\ pc' = "monitor"
                    /\ UNCHANGED <<scenario, exitCode, err, lastStatus, attempt>>
               ELSE IF SleepsBeforeRetry(attempt, EbMaxAttempts)
               THEN /\ pc' = "eb_sleep"
                    /\ UNCHANGED <<scenario, exitCode, err, lastStatus, handle, attempt>>
               ELSE EbNextIteration
    /\ UNCHANGED <<calls, timeVars, sleeps, backendVars>>
    /\ UNCHANGED <<obsVars, arrayVars, taskIoVars, webVars, jwtVars, scVars, queueVars,
                   sfnVars, e2eVars, diagVars, waitVars>>
    /\ UNCHANGED <<loopVars, srvVars, bwVars>>

\* Line 215: time.Sleep(3 * time.Second), then i++.
EbSleep ==
    /\ scenario = "eventbridge"
    /\ pc = "eb_sleep"
    /\ now' = now + EbAttemptSleep
    /\ sleeps' = sleeps + 1
    /\ EbNextIteration
    /\ UNCHANGED <<calls, t0, listCalls, backendVars>>
    /\ UNCHANGED <<obsVars, arrayVars, taskIoVars, webVars, jwtVars, scVars, queueVars,
                   sfnVars, e2eVars, diagVars, waitVars>>
    /\ UNCHANGED <<loopVars, srvVars, bwVars>>

\* ------------------------------------------------- correlation, scheduled mode

\* DeleteRule as EventBridge answers it: a rule that still has targets is
\* not deleted, and the call itself may fail (callOk = FALSE).
DeleteRuleDone(callOk, hasTargets) == callOk /\ ~hasTargets

\* Mutant of EarlyCleanup: the early return leaves the rule behind.
EarlyCleanupSkipped(callOk) == UNCHANGED ruleVars

\* Lines 268, 278, 300, 306: DeleteRule alone, its result ignored.
EarlyCleanup(callOk) ==
    LET done == DeleteRuleDone(callOk, targetExists)
    IN /\ ruleExists' = (ruleExists /\ ~done)
       /\ ebLog' = Append(ebLog, [op |-> "DeleteRule", ok |-> done])
       /\ UNCHANGED targetExists

\* Mutant of DeferredCleanup: the rule is deleted before its target is
\* removed.
DeferredCleanupRuleFirst(removeOk, deleteOk) ==
    LET done == DeleteRuleDone(deleteOk, targetExists)
    IN /\ targetExists' = (targetExists /\ ~removeOk)
       /\ ruleExists' = (ruleExists /\ ~done)
       /\ ebLog' = ebLog \o <<[op |-> "DeleteRule", ok |-> done],
                              [op |-> "RemoveTargets", ok |-> removeOk]>>

\* Lines 313-326, the deferred function: RemoveTargets (result ignored), then
\* DeleteRule (a failure is only warned about).
DeferredCleanup(removeOk, deleteOk) ==
    LET left == targetExists /\ ~removeOk
        done == DeleteRuleDone(deleteOk, left)
    IN /\ targetExists' = left
       /\ ruleExists' = (ruleExists /\ ~done)
       /\ ebLog' = ebLog \o <<[op |-> "RemoveTargets", ok |-> removeOk],
                              [op |-> "DeleteRule", ok |-> done]>>

\* Lines 371-372: StartDate.After(scheduleTime-30s) && StartDate.Before(scheduleTime+2min).
InScheduleWindow(e) ==
    /\ execs[e].start > t0 - SchedBufferBefore
    /\ execs[e].start < t0 + SchedBufferAfter

\* Lines 359 and 385 with the deferred cleanup: i++, then the next attempt
\* or the error return.
SchedNextIteration ==
    /\ attempt' = attempt + 1
    /\ IF LoopContinues(attempt + 1, SchedMaxAttempts)
       THEN /\ pc' = "sched_list"
            /\ UNCHANGED <<scenario, exitCode, err, lastStatus, handle, ruleVars>>
       ELSE /\ \E removeOk, deleteOk \in BOOLEAN : DeferredCleanup(removeOk, deleteOk)
            /\ StartFailed("CorrelationTimeout")

\* Lines 227-257: scheduleTime and PutRule.
SchedPutRule ==
    /\ scenario = "scheduled"
    /\ pc = "start"
    /\ Called("PutRule")
    /\ t0' = now + 60 * ScheduledDelayMinutes
    /\ \/ /\ StartFailed("put_rule_failed")
          /\ UNCHANGED ruleExists
       \/ /\ ruleExists' = TRUE
          /\ pc' = "sched_list_rules"
          /\ UNCHANGED <<scenario, exitCode, err, lastStatus, handle>>
    /\ UNCHANGED <<now, corrVars, wfVars, targetExists, ebLog, taskVars, jobStatus, sqsVars>>
    /\ UNCHANGED <<obsVars, arrayVars, taskIoVars, webVars, jwtVars, scVars, queueVars,
                   sfnVars, e2eVars, diagVars, waitVars>>
    /\ UNCHANGED <<loopVars, srvVars, bwVars>>

\* Lines 263-270: ListRules for the permanent rule.
SchedListRules ==
    /\ scenario = "scheduled"
    /\ pc = "sched_list_rules"
    /\ \/ /\ \E callOk \in BOOLEAN : EarlyCleanup(callOk)
          /\ StartFailed("role_lookup_failed")
       \/ /\ pc' = "sched_list_targets"
          /\ UNCHANGED <<scenario, exitCode, err, lastStatus, handle, ruleVars>>
    /\ UNCHANGED <<calls, timeVars, corrVars, wfVars, taskVars, jobStatus, sqsVars>>
    /\ UNCHANGED <<obsVars, arrayVars, taskIoVars, webVars, jwtVars, scVars, queueVars,
                   sfnVars, e2eVars, diagVars, waitVars>>
    /\ UNCHANGED <<loopVars, srvVars, bwVars>>

\* Lines 273-282: ListTargetsByRule, for the role ARN.
SchedListTargets ==
    /\ scenario = "scheduled"
    /\ pc = "sched_list_targets"
    /\ \/ /\ \E callOk \in BOOLEAN : EarlyCleanup(callOk)
          /\ StartFailed("role_lookup_failed")
       \/ /\ pc' = "sched_put_targets"
          /\ UNCHANGED <<scenario, exitCode, err, lastStatus, handle, ruleVars>>
    /\ UNCHANGED <<calls, timeVars, corrVars, wfVars, taskVars, jobStatus, sqsVars>>
    /\ UNCHANGED <<obsVars, arrayVars, taskIoVars, webVars, jwtVars, scVars, queueVars,
                   sfnVars, e2eVars, diagVars, waitVars>>
    /\ UNCHANGED <<loopVars, srvVars, bwVars>>

\* Lines 285-310: PutTargets.
SchedPutTargets ==
    /\ scenario = "scheduled"
    /\ pc = "sched_put_targets"
    /\ Called("PutTargets")
    /\ \/ /\ \E callOk \in BOOLEAN : EarlyCleanup(callOk)
          /\ StartFailed("put_targets_failed")
       \/ /\ \E callOk \in BOOLEAN : EarlyCleanup(callOk)
          /\ StartFailed("put_targets_failed_entry")
       \/ /\ targetExists' = TRUE
          /\ pc' = "sched_wait"
          /\ UNCHANGED <<scenario, exitCode, err, lastStatus, handle, ruleExists, ebLog>>
    /\ UNCHANGED <<timeVars, corrVars, wfVars, taskVars, jobStatus, sqsVars>>
    /\ UNCHANGED <<obsVars, arrayVars, taskIoVars, webVars, jwtVars, scVars, queueVars,
                   sfnVars, e2eVars, diagVars, waitVars>>
    /\ UNCHANGED <<loopVars, srvVars, bwVars>>

\* Lines 329-354: wait until scheduleTime + 30 s.
SchedWait ==
    /\ scenario = "scheduled"
    /\ pc = "sched_wait"
    /\ now' = t0 + SchedWaitBuffer
    /\ pc' = "sched_list"
    /\ UNCHANGED <<scenario, exitCode, err, lastStatus, handle, calls, t0,
                   corrVars, backendVars>>
    /\ UNCHANGED <<obsVars, arrayVars, taskIoVars, webVars>>
    /\ UNCHANGED <<jwtVars, scVars, queueVars, sfnVars, e2eVars, diagVars, waitVars, loopVars,
                   srvVars>>
    /\ UNCHANGED bwVars

\* Lines 359-385 with the deferred cleanup on each return: one attempt of
\* the correlation loop, ListExecutions (every status) and the scan of its
\* result in the order returned.
SchedListExecutions ==
    /\ scenario = "scheduled"
    /\ pc = "sched_list"
    /\ listCalls' = listCalls + 1
    /\ \/ /\ \E removeOk, deleteOk \in BOOLEAN : DeferredCleanup(removeOk, deleteOk)
          /\ StartFailed("list_error")
          /\ UNCHANGED attempt
       \/ \E order \in Orderings({e \in ExecIds : Exists(e)}) :
            LET found == FirstAccepted(order, {e \in ExecIds : InScheduleWindow(e)})
            IN IF found # ""
               THEN /\ \E removeOk, deleteOk \in BOOLEAN : DeferredCleanup(removeOk, deleteOk)
                    /\ handle' = found
                    /\ pc' = "monitor"
                    /\ UNCHANGED <<scenario, exitCode, err, lastStatus, attempt>>
               ELSE IF SleepsBeforeRetry(attempt, SchedMaxAttempts)
               THEN /\ pc' = "sched_sleep"
                    /\ UNCHANGED <<scenario, exitCode, err, lastStatus, handle, attempt, ruleVars>>
               ELSE SchedNextIteration
    /\ UNCHANGED <<calls, timeVars, sleeps, wfVars, taskVars, jobStatus, sqsVars>>
    /\ UNCHANGED <<obsVars, arrayVars, taskIoVars, webVars, jwtVars, scVars, queueVars,
                   sfnVars, e2eVars, diagVars, waitVars>>
    /\ UNCHANGED <<loopVars, srvVars, bwVars>>

\* Line 381: time.Sleep(5 * time.Second), then i++.
SchedSleep ==
    /\ scenario = "scheduled"
    /\ pc = "sched_sleep"
    /\ now' = now + SchedAttemptSleep
    /\ sleeps' = sleeps + 1
    /\ SchedNextIteration
    /\ UNCHANGED <<calls, t0, listCalls, wfVars, taskVars, jobStatus, sqsVars>>
    /\ UNCHANGED <<obsVars, arrayVars, taskIoVars, webVars, jwtVars, scVars, queueVars,
                   sfnVars, e2eVars, diagVars, waitVars>>
    /\ UNCHANGED <<loopVars, srvVars, bwVars>>

\* ------------------------------------------------- one-off task runner

\* The JSON object `text` as a generic map: its fields, in key order.
GenericMap(text) ==
    (IF text.data = Absent THEN <<>> ELSE <<"data", text.data>>)
        \o (IF text.message = Absent THEN <<>> ELSE <<"message", text.message>>)

\* task main, lines 27-43: TASK_INPUT, "{}" when it is empty, parsed into a
\* TaskInput.  Unmarshal fills the fields it can and reports a field of the
\* wrong type; the text is then parsed as a generic map, which becomes Data.
ParseTaskInput(env) ==
    LET text == IF env.set THEN env ELSE EmptyObject
        typed == text.data \in {Absent, ObjectData}
    IN [ok |-> text.object,
        Message |-> IF text.message = Absent THEN "" ELSE text.message,
        Data |-> IF ~typed THEN GenericMap(text)
                 ELSE IF text.data = Absent THEN <<>> ELSE <<text.data>>]

\* Mutant of ProcessTask: the message is not echoed.
ProcessTaskNoEcho(input) ==
    [status |-> "success",
     message |-> <<"Processed successfully (no message provided)">>,
     input |-> input.Data]

\* task main, lines 48-56; a formatted message is the tuple of its pieces.
ProcessTask(input) ==
    [status |-> "success",
     message |-> IF input.Message = ""
                 THEN <<"Processed successfully (no message provided)">>
                 ELSE <<"Processed: ", input.Message>>,
     input |-> input.Data]

\* Backend: the task moves on, or stops.  A task that stops before its
\* containers ran leaves their exit codes nil; one that ran reports at least
\* the first (essential) container's exit code, which is 0 when main printed
\* its output and returned, and not 0 when TASK_INPUT did not parse (line 40).
TaskProgresses ==
    /\ scenario = "oneoff"
    /\ pc # "exit"
    /\ \/ /\ taskStatus = "PROVISIONING"
          /\ taskStatus' = "PENDING"
          /\ UNCHANGED <<containers, taskOutput>>
       \/ /\ taskStatus = "PENDING"
          /\ taskStatus' = "RUNNING"
          /\ UNCHANGED <<containers, taskOutput>>
       \/ /\ taskStatus \in {"PROVISIONING", "PENDING"}
          /\ taskStatus' = "STOPPED"
          /\ UNCHANGED <<containers, taskOutput>>
       \/ /\ taskStatus = "RUNNING"
          /\ taskStatus' = "STOPPED"
          /\ containers' \in
                {cs \in [1..Len(containers) -> ContainerExitCodes \cup {NoExitCode}] :
                    /\ cs[1] # NoExitCode
                    /\ ~ParseTaskInput(taskInput).ok => cs[1] # 0}
          /\ taskOutput' = IF containers'[1] = 0
                           THEN ProcessTask(ParseTaskInput(taskInput))
                           ELSE TaskNoOutput
    /\ UNCHANGED <<runnerVars, timeVars, corrVars, wfVars, ruleVars, jobStatus, sqsVars>>
    /\ UNCHANGED <<obsVars, arrayVars, taskInput, webVars, jwtVars, scVars, queueVars, sfnVars,
                   e2eVars, diagVars, waitVars>>
    /\ UNCHANGED <<loopVars, srvVars, bwVars>>

\* Lines 135 and 159-163: exitCode starts at 0 and takes the exit code of
\* each container that has one, in order.
RECURSIVE LastExitCode(_, _)
LastExitCode(cs, acc) ==
    IF cs = <<>> THEN acc
    ELSE LastExitCode(Tail(cs), IF Head(cs) # NoExitCode THEN Head(cs) ELSE acc)

\* Lines 112-129: RunTask.
OneoffRunTask ==
    /\ scenario = "oneoff"
    /\ pc = "start"
    /\ Called("RunTask")
    /\ \/ /\ \E cause \in {"run_task_failed", "run_task_failures", "no_tasks_started"} :
               Exit(1, cause)
          /\ UNCHANGED <<handle, taskStatus>>
       \/ /\ taskStatus' = "PROVISIONING"
          /\ handle' = "task"
          /\ pc' = "oneoff_describe"
          /\ UNCHANGED <<exitCode, err>>
    /\ UNCHANGED <<scenario, lastStatus, timeVars, corrVars, wfVars, ruleVars,
                   containers, jobStatus, sqsVars>>
    /\ UNCHANGED <<obsVars, arrayVars, taskIoVars, webVars>>
    /\ UNCHANGED <<jwtVars, scVars, queueVars, sfnVars, e2eVars, diagVars, waitVars, loopVars,
                   srvVars>>
    /\ UNCHANGED bwVars

\* Lines 137-183: one iteration of the wait loop up to the sleep, and, on
\* STOPPED, the rest of main (the log fetch changes nothing).
OneoffDescribe ==
    /\ scenario = "oneoff"
    /\ pc = "oneoff_describe"
    /\ \/ /\ Exit(1, "describe_error")
          /\ UNCHANGED lastStatus
       \/ /\ Exit(1, "not_found")
          /\ UNCHANGED lastStatus
       \/ /\ lastStatus' = taskStatus
          /\ IF taskStatus = "STOPPED"
             THEN LET code == LastExitCode(containers, 0)
                  IN Exit(code, IF code # 0 THEN "container_exit" ELSE "")
             ELSE /\ pc' = "oneoff_sleep"
                  /\ UNCHANGED <<exitCode, err>>
    /\ UNCHANGED <<scenario, handle, calls, timeVars, corrVars, backendVars>>
    /\ UNCHANGED <<obsVars, arrayVars, taskIoVars, webVars, jwtVars, scVars, queueVars,
                   sfnVars, e2eVars, diagVars, waitVars>>
    /\ UNCHANGED <<loopVars, srvVars, bwVars>>

\* Line 167: time.Sleep(5 * time.Second); the loop reads no clock.
OneoffSleep ==
    /\ scenario = "oneoff"
    /\ pc = "oneoff_sleep"
    /\ pc' = "oneoff_describe"
    /\ UNCHANGED <<scenario, exitCode, err, lastStatus, handle, calls,
                   timeVars, corrVars, backendVars>>
    /\ UNCHANGED <<obsVars, arrayVars, taskIoVars, webVars>>
    /\ UNCHANGED <<jwtVars, scVars, queueVars, sfnVars, e2eVars, diagVars, waitVars, loopVars,
                   srvVars>>
    /\ UNCHANGED bwVars

\* ------------------------------------------------- batch array-job runner

JobTerminal == {"SUCCEEDED", "FAILED"}

\* batchworker main, lines 41-57: JOB_INPUT, "{}" when it is empty, parsed
\* into a JobInput; a field that is not there keeps its zero value.
ParseJobInput(env) ==
    LET text == IF env.set THEN env ELSE EmptyObject
    IN [ok |-> text.object,
        Message |-> IF text.message = Absent THEN "" ELSE text.message,
        Items |-> text.items,
        Data |-> text.data]

\* processJob, line 89: fmt.Sscanf(arrayIndex, "%d", &idx), which reads an
\* optional sign and digits; idx stays 0 when nothing is scanned.
Sscanf(str) ==
    IF \E n \in ScannedInts : ToString(n) = str
    THEN CHOOSE n \in ScannedInts : ToString(n) = str
    ELSE 0

\* processJob, lines 86-92: the index at which input.Items is read, if it is
\* read.  The only test before the read is idx < len(input.Items).
ItemsIndexRead(arrayIndex, input) ==
    IF arrayIndex # "" /\ Len(input.Items) > 0 /\ Sscanf(arrayIndex) < Len(input.Items)
    THEN {Sscanf(arrayIndex)}
    ELSE {}

\* Mutant of ProcessJob: every child processes the first item.
ProcessJobFirstItem(arrayIndex, input) ==
    [status |-> "success",
     arrayIndex |-> arrayIndex,
     input |-> input.Data,
     message |->
        IF arrayIndex # "" /\ Len(input.Items) > 0
        THEN <<"Processed item[", "0", "]: ", input.Items[1]>>
        ELSE IF input.Message # ""
        THEN <<"Processed: ", input.Message, " (index: ", arrayIndex, ")">>
        ELSE <<"Processed successfully (array index: ", arrayIndex, ")">>]

\* processJob, lines 77-103; a formatted message is the tuple of its pieces.
\* input.Items[idx] with a negative idx is a run-time panic, shown as the
\* message of the panic.
ProcessJob(arrayIndex, input) ==
    [status |-> "success",
     arrayIndex |-> arrayIndex,
     input |-> input.Data,
     message |->
        IF arrayIndex # "" /\ Len(input.Items) > 0
        THEN LET idx == Sscanf(arrayIndex)
             IN IF idx < 0
                THEN <<"panic: index out of range [", ToString(idx), "]">>
                ELSE IF idx < Len(input.Items)
                THEN <<"Processed item[", ToString(idx), "]: ", input.Items[idx + 1]>>
                ELSE <<"Array index ", ToString(idx), " out of range (items: ",
                       ToString(Len(input.Items)), ")">>
        ELSE IF input.Message # ""
        THEN <<"Processed: ", input.Message, " (index: ", arrayIndex, ")">>
        ELSE <<"Processed successfully (array index: ", arrayIndex, ")">>]

\* Status of the array job once its children have ended, as the Batch
\* service reports it in job.Status.
ArrayJobStatus(cs) ==
    IF \A i \in DOMAIN cs : cs[i].status = "SUCCEEDED" THEN "SUCCEEDED" ELSE "FAILED"

\* Backend: the array job moves through its statuses, and ends when all its
\* children have ended.
JobProgresses ==
    /\ scenario = "batch"
    /\ pc # "exit"
    /\ \/ /\ jobStatus = "SUBMITTED" /\ jobStatus' = "PENDING"
       \/ /\ jobStatus = "PENDING" /\ jobStatus' = "RUNNABLE"
       \/ /\ jobStatus = "RUNNABLE" /\ jobStatus' = "STARTING"
       \/ /\ jobStatus = "STARTING" /\ jobStatus' = "RUNNING"
       \/ /\ jobStatus \in {"PENDING", "RUNNABLE", "STARTING", "RUNNING"}
          /\ \A i \in DOMAIN children : children[i].status \in JobTerminal
          /\ jobStatus' = ArrayJobStatus(children)
    /\ UNCHANGED <<runnerVars, timeVars, corrVars, wfVars, ruleVars, taskVars, sqsVars>>
    /\ UNCHANGED <<obsVars, arrayVars, taskIoVars, webVars, jwtVars, scVars, queueVars,
                   sfnVars, e2eVars, diagVars, waitVars>>
    /\ UNCHANGED <<loopVars, srvVars, bwVars>>

\* Backend and batchworker main: a child of the array job starts, fails
\* without having run, or runs main with AWS_BATCH_JOB_ARRAY_INDEX set to
\* its index; main ends in log.Fatalf when JOB_INPUT is not JSON (line 54).
ChildProgresses ==
    /\ scenario = "batch"
    /\ pc # "exit"
    /\ jobStatus \notin JobTerminal
    /\ \E i \in DOMAIN children :
         \/ /\ children[i].status = "RUNNABLE"
            /\ \E st \in {"RUNNING", "FAILED"} :
                 children' = [children EXCEPT ![i].status = st]
         \/ /\ children[i].status = "RUNNING"
            /\ children' = [children EXCEPT ![i].status = "FAILED"]
         \/ /\ children[i].status = "RUNNING"
            /\ LET input == ParseJobInput(jobInput)
               IN children' =
                    [children EXCEPT ![i] =
                        IF input.ok
                        THEN [status |-> "SUCCEEDED", output |-> ProcessJob(ToString(i - 1), input)]
                        ELSE [status |-> "FAILED", output |-> NoOutput]]
    /\ UNCHANGED <<runnerVars, timeVars, corrVars, backendVars, obsVars, jobInput>>
    /\ UNCHANGED <<taskIoVars, webVars, jwtVars, scVars, queueVars, sfnVars, e2eVars, diagVars,
                   waitVars>>
    /\ UNCHANGED <<loopVars, srvVars, bwVars>>

\* Line 88: time.Since(startTime) > *timeout.
TimedOut(since, timeout) == now - since > timeout

\* Lines 72-82: SubmitJob.
BatchSubmitJob ==
    /\ scenario = "batch"
    /\ pc = "start"
    /\ Called("SubmitJob")
    /\ \/ /\ Exit(1, "submit_failed")
          /\ UNCHANGED <<handle, jobStatus, t0, children>>
       \/ /\ jobStatus' = "SUBMITTED"
          /\ handle' = "job"
          /\ t0' = now
          /\ pc' = "batch_poll"
          /\ children' = [i \in 1..ArraySize |-> [status |-> "RUNNABLE", output |-> NoOutput]]
          /\ UNCHANGED <<exitCode, err>>
    /\ UNCHANGED <<scenario, lastStatus, now, corrVars, wfVars, ruleVars, taskVars, sqsVars>>
    /\ UNCHANGED <<obsVars, jobInput, taskIoVars, webVars, jwtVars, scVars, queueVars, sfnVars,
                   e2eVars, diagVars, waitVars>>
    /\ UNCHANGED <<loopVars, srvVars, bwVars>>

\* printDiagnostics, lines 251-269: the job is described again and the
\* status in the answer is printed; nothing is printed for the job when the
\* call fails or the answer is empty.
PrintDiagnostics(describeOk, found, status) == IF describeOk /\ found THEN status ELSE ""

\* Lines 88-131: one iteration of the wait loop up to the sleep.
BatchPoll ==
    /\ scenario = "batch"
    /\ pc = "batch_poll"
    /\ IF TimedOut(t0, BatchTimeout)
       THEN /\ \E describeOk, found \in BOOLEAN :
                 surfacedStatus' = PrintDiagnostics(describeOk, found, jobStatus)
            /\ Exit(1, "DeadlineExceeded")
            /\ UNCHANGED lastStatus
       ELSE \/ /\ Exit(1, "describe_error")
               /\ UNCHANGED <<lastStatus, surfacedStatus>>
            \/ /\ Exit(1, "not_found")
               /\ UNCHANGED <<lastStatus, surfacedStatus>>
            \/ /\ lastStatus' = jobStatus
               /\ pc' = IF lastStatus' \in JobTerminal THEN "batch_done" ELSE "batch_sleep"
               /\ UNCHANGED <<exitCode, err, surfacedStatus>>
    /\ UNCHANGED <<scenario, handle, calls, timeVars, corrVars, backendVars>>
    /\ UNCHANGED <<obsVars, arrayVars, taskIoVars, webVars, jwtVars, scVars, queueVars,
                   sfnVars, e2eVars, waitVars>>
    /\ UNCHANGED <<loopVars, srvVars, bwVars>>

\* Line 133: time.Sleep(5 * time.Second).
BatchSleep ==
    /\ scenario = "batch"
    /\ pc = "batch_sleep"
    /\ now' = now + PollInterval
    /\ pc' = "batch_poll"
    /\ UNCHANGED <<scenario, exitCode, err, lastStatus, handle, calls, t0,
                   corrVars, backendVars>>
    /\ UNCHANGED <<obsVars, arrayVars, taskIoVars, webVars>>
    /\ UNCHANGED <<jwtVars, scVars, queueVars, sfnVars, e2eVars, diagVars, waitVars, loopVars,
                   srvVars>>
    /\ UNCHANGED bwVars

\* A log stream as DescribeLogStreams lists it: the job whose container wrote
\* it, that job's array index, and whether its last event is less than five
\* minutes old (isRecentStream, lines 230-237).
LogStream(job, index, recent) == [job |-> job, index |-> index, recent |-> recent]

\* The stream of child i of the submitted job, named after the job as the
\* comment at lines 164-166 has it.
ChildStream(i) == LogStream("job", i - 1, TRUE)

\* The streams the log group may hold when fetchLogs lists it: those of the
\* children that have started, and two streams of other jobs.
StreamsInGroup ==
    {ChildStream(i) : i \in {j \in DOMAIN children : children[j].status # "RUNNABLE"}}
        \cup {LogStream("other", 0, TRUE), LogStream("other", 1, FALSE)}

\* fetchLogs, lines 186-200: the streams that name the job or are recent,
\* and when there is none, the first arraySize streams of the list.
RelevantStreams(streams, jobID) ==
    LET relevant == SelectSeq(streams, LAMBDA st : st.job = jobID \/ st.recent)
    IN IF relevant = <<>>
       THEN SubSeq(streams, 1, Min({ArraySize, Len(streams)}))
       ELSE relevant

\* fetchLogs, lines 161-228: the streams whose events are printed.  Nothing
\* is printed when the list call fails; a stream that cannot be read is
\* skipped.  No event is inspected and nothing is returned.
FetchLogs(listOk, streams, readable, jobID) ==
    IF ~listOk THEN {}
    ELSE LET relevant == RelevantStreams(streams, jobID)
         IN {[job |-> relevant[k].job, index |-> relevant[k].index] :
                k \in {n \in DOMAIN relevant : relevant[n] \in readable}}

\* Mutant of BatchVerdict: every terminal status passes.
BatchVerdictAnyTerminal(finalStatus) == 0

\* Lines 146-151: exit status 1 unless finalStatus is SUCCEEDED.
BatchVerdict(finalStatus) == IF finalStatus = "SUCCEEDED" THEN 0 ELSE 1

\* Lines 136-151: fetchLogs prints the logs, then the exit status follows
\* finalStatus.
BatchFinish ==
    /\ scenario = "batch"
    /\ pc = "batch_done"
    /\ \E listOk \in BOOLEAN, listed \in SUBSET StreamsInGroup :
         \E order \in Orderings(listed), readable \in SUBSET listed :
            fetched' = FetchLogs(listOk, order, readable, handle)
    /\ LET code == BatchVerdict(lastStatus)
       IN Exit(code, IF code = 0 THEN "" ELSE "job_failed")
    /\ UNCHANGED <<scenario, lastStatus, handle, calls, timeVars, corrVars, backendVars>>
    /\ UNCHANGED <<lastCheck, outputRead, arrayVars, taskIoVars, webVars, jwtVars, scVars,
                   queueVars, sfnVars, e2eVars, diagVars, waitVars>>
    /\ UNCHANGED <<loopVars, srvVars, bwVars>>

\* ------------------------------------------------- SQS queue and worker

\* One log event of the worker, by what checkJobInLogs looks for in it.
LogLine(hasJobID, hasSuccess, isProcessing) ==
    [job |-> hasJobID, success |-> hasSuccess, processing |-> isProcessing]

\* pollAndProcess, lines 81-96: ReceiveMessage delivers the message and
\* hides it for the visibility timeout.
WorkerReceive ==
    /\ scenario = "sqs"
    /\ workerPc = "idle"
    /\ msgState = "visible"
    /\ receiveCount < MaxReceiveCount
    /\ msgState' = "inflight"
    /\ receiveCount' = receiveCount + 1
    /\ hiddenFor' = 0
    /\ workerPc' = "received"
    /\ UNCHANGED <<runnerVars, timeVars, corrVars, wfVars, ruleVars, taskVars,
                   jobStatus, logEvents, deleteFailed>>
    /\ UNCHANGED <<obsVars, arrayVars, taskIoVars, webVars>>
    /\ UNCHANGED <<jwtVars, scVars, sfnVars, e2eVars, diagVars, waitVars, loopVars, srvVars>>
    /\ UNCHANGED bwVars

\* Backend: the redrive policy moves a message received maxReceiveCount
\* times to the dead-letter queue.
MoveToDeadLetterQueue ==
    /\ scenario = "sqs"
    /\ msgState = "visible"
    /\ receiveCount >= MaxReceiveCount
    /\ msgState' = "dlq"
    /\ UNCHANGED <<runnerVars, timeVars, corrVars, wfVars, ruleVars, taskVars,
                   jobStatus, receiveCount, workerPc, logEvents, deleteFailed>>
    /\ UNCHANGED <<obsVars, arrayVars, taskIoVars, webVars>>
    /\ UNCHANGED <<jwtVars, scVars, queueVars, sfnVars, e2eVars, diagVars, waitVars, loopVars,
                   srvVars>>
    /\ UNCHANGED bwVars

\* Backend: time passes for a message in flight.
VisibilityClockTicks ==
    /\ scenario = "sqs"
    /\ msgState = "inflight"
    /\ hiddenFor < VisibilityTimeout
    /\ hiddenFor' = hiddenFor + VisibilityTick
    /\ UNCHANGED <<runnerVars, timeVars, corrVars, backendVars>>
    /\ UNCHANGED <<obsVars, arrayVars, taskIoVars, webVars, jwtVars, scVars, sfnVars, e2eVars,
                   diagVars, waitVars>>
    /\ UNCHANGED <<loopVars, srvVars, bwVars>>

\* Backend: the visibility timeout of a message that was not deleted has
\* passed, and the message can be received again.
VisibilityTimeoutExpires ==
    /\ scenario = "sqs"
    /\ msgState = "inflight"
    /\ workerPc = "idle"
    /\ hiddenFor >= VisibilityTimeout
    /\ msgState' = "visible"
    /\ UNCHANGED hiddenFor
    /\ UNCHANGED <<runnerVars, timeVars, corrVars, wfVars, ruleVars, taskVars,
                   jobStatus, receiveCount, workerPc, logEvents, deleteFailed>>
    /\ UNCHANGED <<obsVars, arrayVars, taskIoVars, webVars>>
    /\ UNCHANGED <<jwtVars, scVars, sfnVars, e2eVars, diagVars, waitVars, loopVars, srvVars>>
    /\ UNCHANGED bwVars

\* processMessage, lines 110-111: "Processing message: <SQS message id>".
WorkerLogsProcessing ==
    /\ scenario = "sqs"
    /\ workerPc = "received"
    /\ logEvents' = Append(logEvents, LogLine(FALSE, FALSE, TRUE))
    /\ workerPc' = "parsed"
    /\ UNCHANGED <<runnerVars, timeVars, corrVars, wfVars, ruleVars, taskVars,
                   jobStatus, msgState, receiveCount, deleteFailed>>
    /\ UNCHANGED <<obsVars, arrayVars, taskIoVars, webVars>>
    /\ UNCHANGED <<jwtVars, scVars, queueVars, sfnVars, e2eVars, diagVars, waitVars, loopVars,
                   srvVars>>
    /\ UNCHANGED bwVars

\* processMessage, lines 114-143: the result is printed, one log event per
\* line of the indented JSON.
WorkerLogsResult ==
    /\ scenario = "sqs"
    /\ workerPc = "parsed"
    /\ logEvents' = logEvents \o <<LogLine(TRUE, FALSE, FALSE), LogLine(FALSE, TRUE, FALSE)>>
    /\ workerPc' = "logged"
    /\ UNCHANGED <<runnerVars, timeVars, corrVars, wfVars, ruleVars, taskVars,
                   jobStatus, msgState, receiveCount, deleteFailed>>
    /\ UNCHANGED <<obsVars, arrayVars, taskIoVars, webVars>>
    /\ UNCHANGED <<jwtVars, scVars, queueVars, sfnVars, e2eVars, diagVars, waitVars, loopVars,
                   srvVars>>
    /\ UNCHANGED bwVars

\* processMessage, lines 110-143, for a message of another producer that the
\* worker handled before the runner's message was sent: "Processing message:"
\* with the SQS message id, then the result block, whose job_id line holds
\* that job's id and whose status line is the success marker.
WorkerProcessedEarlierMessage ==
    /\ scenario = "sqs"
    /\ workerPc = "idle"
    /\ msgState = "none"
    /\ logEvents = <<>>
    /\ logEvents' = <<LogLine(FALSE, FALSE, TRUE), LogLine(FALSE, FALSE, FALSE),
                      LogLine(FALSE, TRUE, FALSE)>>
    /\ UNCHANGED <<runnerVars, timeVars, corrVars, wfVars, ruleVars, taskVars,
                   jobStatus, msgState, receiveCount, workerPc, deleteFailed>>
    /\ UNCHANGED <<obsVars, arrayVars, taskIoVars, webVars>>
    /\ UNCHANGED <<jwtVars, scVars, queueVars, sfnVars, e2eVars, diagVars, waitVars, loopVars,
                   srvVars>>
    /\ UNCHANGED bwVars

\* Mutant of AfterDeleteMessage: the message is gone whatever the call returned.
AfterDeleteMessageAlways(callOk, state) == "deleted"

\* Backend: where the message is after a DeleteMessage call.
AfterDeleteMessage(callOk, state) == IF callOk THEN "deleted" ELSE state

\* processMessage, lines 146-155: DeleteMessage, which may fail; its error
\* is the only one processMessage returns.
WorkerDeletes ==
    /\ scenario = "sqs"
    /\ workerPc = "logged"
    /\ \E callOk \in BOOLEAN :
         /\ msgState' = AfterDeleteMessage(callOk, msgState)
         /\ deleteFailed' = ~callOk
    /\ workerPc' = "idle"
    /\ UNCHANGED <<runnerVars, timeVars, corrVars, wfVars, ruleVars, taskVars,
                   jobStatus, receiveCount, logEvents>>
    /\ UNCHANGED <<obsVars, arrayVars, taskIoVars, webVars>>
    /\ UNCHANGED <<jwtVars, scVars, queueVars, sfnVars, e2eVars, diagVars, waitVars, loopVars,
                   srvVars>>
    /\ UNCHANGED bwVars

\* ------------------------------------------------- SQS round-trip runner

\* Mutant of ScanEvents: a success marker counts whether or not the job ID
\* was seen.
RECURSIVE ScanEventsAnySuccess(_, _)
ScanEventsAnySuccess(events, foundJobID) ==
    IF events = <<>> THEN FALSE
    ELSE Head(events).success \/ ScanEventsAnySuccess(Tail(events), foundJobID)

\* checkJobInLogs, lines 186-200: the scan of one stream's events.
RECURSIVE ScanEvents(_, _)
ScanEvents(events, foundJobID) ==
    IF events = <<>> THEN FALSE
    ELSE LET ev == Head(events)
             found == foundJobID \/ ev.job
         IN IF found /\ ev.success THEN TRUE
            ELSE ScanEvents(Tail(events),
                            IF ev.processing /\ ~ev.job THEN FALSE ELSE found)

\* What one DescribeServices call of waitForService can show.
ServiceObservations == [status : {"ACTIVE", "DRAINING"}, running : {0, 1}]

\* Mutant of ServiceReady: the status of the service is not looked at.
ServiceReadyAnyStatus(o) == o.running > 0

\* waitForService, line 142: the readiness condition.
ServiceReady(o) == o.running > 0 /\ o.status = "ACTIVE"

\* waitForService, lines 122-150, called at line 55 with 60 seconds: one turn
\* of the loop.  The loop is left with the timeout error once
\* time.Since(startTime) < timeout is false (the runner starts at time 0),
\* with an error when DescribeServices fails or shows no service, with nil
\* when the service is ready, and sleeps 5 seconds otherwise.
SqsWaitForService ==
    /\ scenario = "sqs"
    /\ pc = "start"
    /\ IF now < ServiceWaitTimeout
       THEN \/ /\ Exit(1, "describe_failed")
               /\ UNCHANGED <<now, waitVars>>
            \/ \E o \in ServiceObservations :
                 /\ observed' = [observed EXCEPT !["waitForService"] = o]
                 /\ IF ServiceReady(o)
                    THEN /\ pc' = "sqs_send"
                         /\ ready' = ready \cup {"waitForService"}
                         /\ UNCHANGED now
                    ELSE /\ now' = now + WaitSleep
                         /\ UNCHANGED <<pc, ready>>
                 /\ UNCHANGED <<exitCode, err>>
       ELSE /\ Exit(1, "wait_timeout")
            /\ UNCHANGED <<now, waitVars>>
    /\ UNCHANGED <<scenario, lastStatus, handle, calls, t0, corrVars, backendVars>>
    /\ UNCHANGED <<obsVars, arrayVars, taskIoVars, webVars, jwtVars, scVars, queueVars,
                   sfnVars, e2eVars, diagVars>>
    /\ UNCHANGED <<loopVars, srvVars, bwVars>>

\* Lines 83-96: SendMessage.
SqsSendMessage ==
    /\ scenario = "sqs"
    /\ pc = "sqs_send"
    /\ Called("SendMessage")
    /\ \/ /\ Exit(1, "send_failed")
          /\ UNCHANGED <<handle, msgState, t0>>
       \/ /\ msgState' = "visible"
          /\ handle' = "message"
          /\ t0' = now
          /\ pc' = "sqs_poll"
          /\ UNCHANGED <<exitCode, err>>
    /\ UNCHANGED <<scenario, lastStatus, now, corrVars, wfVars, ruleVars, taskVars,
                   jobStatus, receiveCount, workerPc, logEvents, deleteFailed>>
    /\ UNCHANGED <<obsVars, arrayVars, taskIoVars, webVars>>
    /\ UNCHANGED <<jwtVars, scVars, queueVars, sfnVars, e2eVars, diagVars, waitVars, loopVars,
                   srvVars>>
    /\ UNCHANGED bwVars

\* The log streams of the worker's log group: the worker's stream exists
\* once it has logged.
LogStreams == IF logEvents = <<>> THEN <<>> ELSE <<logEvents>>

\* Mutant of CheckJobInLogs: a stream that cannot be read counts as a match.
CheckJobInLogsReadErrorMatches(listOk, readOk, streams) ==
    listOk /\ \E i \in DOMAIN streams : ~readOk \/ ScanEvents(streams[i], FALSE)

\* checkJobInLogs, lines 152-210: false when DescribeLogStreams fails (168-171),
\* a stream whose GetLogEvents fails is skipped (180-182), true at the first
\* stream whose scan matches, false after the last one.
CheckJobInLogs(listOk, readOk, streams) ==
    listOk /\ \E i \in DOMAIN streams : readOk /\ ScanEvents(streams[i], FALSE)

\* What a checkJobInLogs call met.
CheckOutcome(listOk, readOk, streams) ==
    IF ~listOk THEN "list_error"
    ELSE IF streams = <<>> THEN "no_streams"
    ELSE IF ~readOk THEN "read_error"
    ELSE "scanned"

\* Lines 100-119: one iteration of the log polling loop up to the sleep, and
\* the end of main once the loop is left.
SqsPoll ==
    /\ scenario = "sqs"
    /\ pc = "sqs_poll"
    /\ IF now - t0 < SqsTimeout
       THEN \E listOk, readOk \in BOOLEAN :
              /\ lastCheck' = CheckOutcome(listOk, readOk, LogStreams)
              /\ IF CheckJobInLogs(listOk, readOk, LogStreams)
                 THEN /\ lastStatus' = "processed"
                      /\ Exit(0, "")
                 ELSE /\ lastStatus' = "not_processed"
                      /\ pc' = "sqs_sleep"
                      /\ UNCHANGED <<exitCode, err>>
       ELSE /\ Exit(1, "DeadlineExceeded")
            /\ UNCHANGED <<lastStatus, lastCheck>>
    /\ UNCHANGED <<scenario, handle, calls, timeVars, corrVars, backendVars, fetched, outputRead>>
    /\ UNCHANGED <<arrayVars, taskIoVars, webVars, jwtVars, scVars, queueVars, sfnVars,
                   e2eVars, diagVars, waitVars>>
    /\ UNCHANGED <<loopVars, srvVars, bwVars>>

\* Line 106: time.Sleep(checkInterval).
SqsSleep ==
    /\ scenario = "sqs"
    /\ pc = "sqs_sleep"
    /\ now' = now + PollInterval
    /\ pc' = "sqs_poll"
    /\ UNCHANGED <<scenario, exitCode, err, lastStatus, handle, calls, t0,
                   corrVars, backendVars>>
    /\ UNCHANGED <<obsVars, arrayVars, taskIoVars, webVars>>
    /\ UNCHANGED <<jwtVars, scVars, queueVars, sfnVars, e2eVars, diagVars, waitVars, loopVars,
                   srvVars>>
    /\ UNCHANGED bwVars

\* ------------------------------------------------- webapp login test runner

\* Mutant of RedirectLoopContinues: one more turn is allowed.
RedirectLoopContinuesOneMore(status, count) == status = StatusFound /\ count <= MaxRedirects

\* Line 377: the loop condition of the redirect chain.
RedirectLoopContinues(status, count) == status = StatusFound /\ count < MaxRedirects

\* Login pages the server may answer with: the _csrf input with name directly
\* followed by value, with another attribute in between, with an empty
\* value, and a page without the input.
LoginPages ==
    {LoginPage("name_value", "token"), LoginPage("attrs_between", "token"),
     LoginPage("name_value", ""), LoginPage("none", "")}

\* extractCSRFToken, lines 469-485: name="_csrf" and value="..." next to each
\* other, in either order, the value not empty.
ExtractCSRFToken(page) ==
    IF page.form \in {"name_value", "value_name"} /\ page.token # "" THEN page.token ELSE ""

\* Mutant of ExtractCSRFTokenAlt: a token is made up when none is found.
ExtractCSRFTokenAltAny(page) == "token"

\* extractCSRFTokenAlt, lines 488-506: both attributes anywhere in one input
\* tag, with either kind of quote, the value not empty.
ExtractCSRFTokenAlt(page) ==
    IF page.form \in {"name_value", "value_name", "attrs_between", "single_quotes"}
          /\ page.token # ""
    THEN page.token ELSE ""

\* A request made by the test runner is recorded in webLog.
Requested(what) == webLog' = Append(webLog, what)

\* main, lines 147-166: waitForHealth, Test 1 and Test 2.
WebPreflight ==
    /\ scenario = "webapp"
    /\ pc = "start"
    /\ \/ Exit(1, "preflight_failed")
       \/ /\ pc' = "web_protected"
          /\ UNCHANGED <<exitCode, err>>
    /\ UNCHANGED <<scenario, lastStatus, handle, calls, timeVars, corrVars, backendVars>>
    /\ UNCHANGED <<obsVars, arrayVars, taskIoVars, webVars, jwtVars, scVars, queueVars,
                   sfnVars, e2eVars, diagVars, waitVars>>
    /\ UNCHANGED <<loopVars, srvVars, bwVars>>

\* authenticateViaCognito step 1, lines 267-286: the protected endpoint is
\* requested without a session and must answer 302.
WebRequestProtected ==
    /\ scenario = "webapp"
    /\ pc = "web_protected"
    /\ Requested("GET /app/profile")
    /\ \/ /\ Exit(1, "request_failed")
          /\ UNCHANGED httpStatus
       \/ \E status \in HttpStatuses :
            /\ httpStatus' = status
            /\ IF status # StatusFound
               THEN Exit(1, "not_redirected")
               ELSE /\ pc' = "web_login_page"
                    /\ UNCHANGED <<exitCode, err>>
    /\ UNCHANGED <<scenario, lastStatus, handle, calls, timeVars, corrVars, backendVars>>
    /\ UNCHANGED <<obsVars, arrayVars, taskIoVars, loginBody, csrfToken, redirectCount, cookieSet,
                   profileBody>>
    /\ UNCHANGED jwtVars
    /\ UNCHANGED <<scVars, queueVars, sfnVars, e2eVars, diagVars, waitVars, loopVars, srvVars>>
    /\ UNCHANGED bwVars

\* Step 2, lines 288-321: the login page is requested, through one more
\* redirect when the answer is 302; its status is not looked at.
WebFetchLoginPage ==
    /\ scenario = "webapp"
    /\ pc = "web_login_page"
    /\ \/ /\ Requested("GET login page")
          /\ Exit(1, "request_failed")
          /\ UNCHANGED <<httpStatus, loginBody>>
       \/ /\ webLog' = webLog \o <<"GET login page", "GET login page">>
          /\ Exit(1, "request_failed")
          /\ httpStatus' = StatusFound
          /\ UNCHANGED loginBody
       \/ \E status \in HttpStatuses \ {StatusFound}, page \in LoginPages :
            /\ \/ Requested("GET login page")
               \/ webLog' = webLog \o <<"GET login page", "GET login page">>
            /\ httpStatus' = status
            /\ loginBody' = page
            /\ pc' = "web_extract"
            /\ UNCHANGED <<exitCode, err>>
    /\ UNCHANGED <<scenario, lastStatus, handle, calls, timeVars, corrVars, backendVars>>
    /\ UNCHANGED <<obsVars, arrayVars, taskIoVars, csrfToken, redirectCount, cookieSet,
                   profileBody>>
    /\ UNCHANGED jwtVars
    /\ UNCHANGED <<scVars, queueVars, sfnVars, e2eVars, diagVars, waitVars, loopVars, srvVars>>
    /\ UNCHANGED bwVars

\* Step 3, lines 323-334: the CSRF token is taken from the page; without one
\* the function returns an error.
WebExtractToken ==
    /\ scenario = "webapp"
    /\ pc = "web_extract"
    /\ LET first == ExtractCSRFToken(loginBody)
           token == IF first = "" THEN ExtractCSRFTokenAlt(loginBody) ELSE first
       IN /\ csrfToken' = token
          /\ IF token = ""
             THEN Exit(1, "no_csrf_token")
             ELSE /\ pc' = "web_post"
                  /\ UNCHANGED <<exitCode, err>>
    /\ UNCHANGED <<scenario, lastStatus, handle, calls, timeVars, corrVars, backendVars>>
    /\ UNCHANGED <<obsVars, arrayVars, taskIoVars, httpStatus, loginBody, redirectCount,
                   webLog, cookieSet, profileBody>>
    /\ UNCHANGED jwtVars
    /\ UNCHANGED <<scVars, queueVars, sfnVars, e2eVars, diagVars, waitVars, loopVars, srvVars>>
    /\ UNCHANGED bwVars

\* Step 4, lines 336-375: the login form is posted with the token and the
\* credentials; redirectCount starts at 0.
WebPostLogin ==
    /\ scenario = "webapp"
    /\ pc = "web_post"
    /\ Requested("POST /login")
    /\ \/ /\ Exit(1, "request_failed")
          /\ UNCHANGED <<httpStatus, redirectCount>>
       \/ \E status \in HttpStatuses :
            /\ httpStatus' = status
            /\ redirectCount' = 0
            /\ pc' = "web_redirects"
            /\ UNCHANGED <<exitCode, err>>
    /\ UNCHANGED <<scenario, lastStatus, handle, calls, timeVars, corrVars, backendVars>>
    /\ UNCHANGED <<obsVars, arrayVars, taskIoVars, loginBody, csrfToken, cookieSet,
                   profileBody, jwtVars, scVars, queueVars, sfnVars, e2eVars, diagVars,
                   waitVars>>
    /\ UNCHANGED <<loopVars, srvVars, bwVars>>

\* Step 5, lines 377-397: one turn of the redirect chain.  A response may
\* set the session cookie in the jar, or expire it.
WebFollowRedirect ==
    /\ scenario = "webapp"
    /\ pc = "web_redirects"
    /\ RedirectLoopContinues(httpStatus, redirectCount)
    /\ Requested("GET redirect")
    /\ \/ /\ Exit(1, "request_failed")
          /\ UNCHANGED <<httpStatus, redirectCount, cookieSet>>
       \/ \E status \in HttpStatuses, cookie \in BOOLEAN :
            /\ httpStatus' = status
            /\ cookieSet' = cookie
            /\ redirectCount' = IF status = StatusFound THEN redirectCount + 1 ELSE redirectCount
            /\ UNCHANGED <<pc, exitCode, err>>
    /\ UNCHANGED <<scenario, lastStatus, handle, calls, timeVars, corrVars, backendVars>>
    /\ UNCHANGED <<obsVars, arrayVars, taskIoVars, loginBody, csrfToken, profileBody, jwtVars,
                   scVars, queueVars, sfnVars, e2eVars, diagVars, waitVars>>
    /\ UNCHANGED <<loopVars, srvVars, bwVars>>

\* Step 6, lines 399-419: after the chain the jar must hold the session
\* cookie.
WebVerifyCookie ==
    /\ scenario = "webapp"
    /\ pc = "web_redirects"
    /\ ~RedirectLoopContinues(httpStatus, redirectCount)
    /\ IF cookieSet
       THEN /\ pc' = "web_profile"
            /\ UNCHANGED <<exitCode, err>>
       ELSE Exit(1, "no_session_cookie")
    /\ UNCHANGED <<scenario, lastStatus, handle, calls, timeVars, corrVars, backendVars>>
    /\ UNCHANGED <<obsVars, arrayVars, taskIoVars, webVars, jwtVars, scVars, queueVars,
                   sfnVars, e2eVars, diagVars, waitVars>>
    /\ UNCHANGED <<loopVars, srvVars, bwVars>>

\* Profile responses: the one profileHandler gives an authenticated request,
\* the same with one of the three identity headers missing, a JSON object
\* without the fields, has_token as a string, and a body that is not JSON.
ProfileBodies ==
    {ProfileBody(TRUE, "\"sub-1\"", "{\"email\": \"u@example.com\"}", "true"),
     ProfileBody(TRUE, "\"\"", "{\"email\": \"u@example.com\"}", "true"),
     ProfileBody(TRUE, "\"sub-1\"", "null", "true"),
     ProfileBody(TRUE, "\"sub-1\"", "{\"email\": \"u@example.com\"}", "false"),
     ProfileBody(TRUE, "\"sub-1\"", "{\"email\": \"u@example.com\"}", "\"true\""),
     ProfileBody(TRUE, Absent, Absent, Absent),
     NoBody}

\* Mutant of TestAuthenticatedProfile: has_token is not looked at.
TestAuthenticatedProfileNoToken(status, body) ==
    IF status # StatusOK THEN "expected 200"
    ELSE IF ~body.json THEN "failed to parse response"
    ELSE IF body.user_id \in {Absent, "\"\""} THEN "response missing user_id field"
    ELSE IF body.claims \in {Absent, "null"} THEN "response missing claims field"
    ELSE ""

\* testAuthenticatedProfile, lines 437-465: the error the checks of the
\* response end with, "" when all pass.
TestAuthenticatedProfile(status, body) ==
    IF status # StatusOK THEN "expected 200"
    ELSE IF ~body.json THEN "failed to parse response"
    ELSE IF body.user_id \in {Absent, "\"\""} THEN "response missing user_id field"
    ELSE IF body.claims \in {Absent, "null"} THEN "response missing claims field"
    ELSE IF body.has_token # "true" THEN "response indicates no access token was provided"
    ELSE ""

\* main, lines 176-185, and testAuthenticatedProfile: Test 4.
WebAuthenticatedProfile ==
    /\ scenario = "webapp"
    /\ pc = "web_profile"
    /\ Requested("GET /app/profile with session")
    /\ \/ /\ Exit(1, "request_failed")
          /\ UNCHANGED <<httpStatus, profileBody>>
       \/ \E status \in HttpStatuses, body \in ProfileBodies :
            /\ httpStatus' = status
            /\ profileBody' = body
            /\ IF TestAuthenticatedProfile(status, body) = ""
               THEN Exit(0, "")
               ELSE Exit(1, "profile_failed")
    /\ UNCHANGED <<scenario, lastStatus, handle, calls, timeVars, corrVars, backendVars>>
    /\ UNCHANGED <<obsVars, arrayVars, taskIoVars, loginBody, csrfToken, redirectCount,
                   cookieSet, jwtVars, scVars, queueVars, sfnVars, e2eVars, diagVars, waitVars>>
    /\ UNCHANGED <<loopVars, srvVars, bwVars>>

\* ---------------------------------------------------- JWT validation runner

\* Bodies of a token response and of a whoami response.
TokenBodies ==
    {JsonBody(TRUE, [access_token |-> "jwt"]), JsonBody(TRUE, [access_token |-> ""]),
     JsonBody(FALSE, [access_token |-> ""])}
WhoamiBodies ==
    {JsonBody(TRUE, {"server_id", "headers"}), JsonBody(TRUE, {"server_id"}),
     JsonBody(TRUE, {"headers"}), JsonBody(FALSE, {})}

\* The requests of the five tests, in the order main makes them.
JwtRequests ==
    <<"GET /health", "GET /api/echo", "POST token client_credentials",
      "GET /api/echo Bearer", "GET /api/whoami Bearer">>

\* testHealthEndpoint and testAuthenticated: nil only on a 200.
ExpectOK(x) == x.ok /\ x.status = StatusOK

\* Mutant of TestUnauthenticated: any answer other than 200 is accepted.
TestUnauthenticatedNot200(x) == x.ok /\ x.status # StatusOK

\* testUnauthenticated, lines 146-165: nil only on a 401.
TestUnauthenticated(x) == x.ok /\ x.status = StatusUnauthorized

\* getAccessToken, lines 167-208: the token, "" when an error is returned.
GetAccessToken(x) ==
    IF x.ok /\ x.status = StatusOK /\ x.body.json THEN x.body.fields.access_token ELSE ""

\* testWhoami, lines 233-269: nil only on a 200 whose body is a JSON object
\* with server_id and headers.
TestWhoami(x) ==
    /\ x.ok /\ x.status = StatusOK
    /\ x.body.json
    /\ "server_id" \in x.body.fields
    /\ "headers" \in x.body.fields

\* Whether the test that made exchange number i passed.
JwtStepPassed(i, x) ==
    CASE i = 1 -> ExpectOK(x)
      [] i = 2 -> TestUnauthenticated(x)
      [] i = 3 -> GetAccessToken(x) # ""
      [] i = 4 -> ExpectOK(x)
      [] OTHER -> TestWhoami(x)

\* What one GET of the health path can meet: no answer, or an answer with a
\* status code.
HealthObservations ==
    {[ok |-> FALSE, code |-> 0]} \cup [ok : {TRUE}, code : {StatusOK, 503}]

\* waitForHealth, line 112 (line 279 in the Service Connect runner): the
\* readiness condition.
HealthReady(o) == o.ok /\ o.code = StatusOK

\* One turn of the loop of a waitForHealth: the context's error once the
\* context is done, nil on a ready answer, a sleep of 5 seconds otherwise.
WaitForHealthTurn(nextPc) ==
    IF now < ContextTimeout
    THEN \E o \in HealthObservations :
           /\ observed' = [observed EXCEPT !["waitForHealth"] = o]
           /\ IF HealthReady(o)
              THEN /\ pc' = nextPc
                   /\ ready' = ready \cup {"waitForHealth"}
                   /\ UNCHANGED now
              ELSE /\ now' = now + WaitSleep
                   /\ UNCHANGED <<pc, ready>>
           /\ UNCHANGED <<exitCode, err>>
    ELSE /\ Exit(1, "wait_timeout")
         /\ UNCHANGED <<now, waitVars>>

\* waitForHealth, lines 98-123, called at main, lines 50-54, with the context
\* of the -timeout flag: one turn of the loop.  A request that cannot be
\* built ends the wait with an error (lines 106-109).
JwtWaitForHealth ==
    /\ scenario = "jwt"
    /\ pc = "start"
    /\ \/ WaitForHealthTurn("jwt_test")
       \/ /\ now < ContextTimeout
          /\ Exit(1, "request_not_created")
          /\ UNCHANGED <<now, waitVars>>
    /\ UNCHANGED <<scenario, lastStatus, handle, calls, t0, corrVars, backendVars>>
    /\ UNCHANGED <<obsVars, arrayVars, taskIoVars, webVars, jwtVars, scVars, queueVars,
                   sfnVars, e2eVars, diagVars>>
    /\ UNCHANGED <<loopVars, srvVars, bwVars>>

\* main, lines 56-95: the next of Test 1 to Test 5.  A failing test ends the
\* run with log.Fatalf; after Test 5 the PASS lines are printed.
JwtTest ==
    /\ scenario = "jwt"
    /\ pc = "jwt_test"
    /\ LET i == Len(jwtLog) + 1
       IN \E ok \in BOOLEAN, status \in JwtStatuses,
             body \in (IF i = 3 THEN TokenBodies ELSE IF i = 5 THEN WhoamiBodies
                       ELSE {JsonBody(TRUE, {})}) :
            LET x == Exchange(JwtRequests[i], ok, IF ok THEN status ELSE 0, body)
            IN /\ jwtLog' = Append(jwtLog, x)
               /\ accessToken' = IF i = 3 THEN GetAccessToken(x) ELSE accessToken
               /\ IF ~JwtStepPassed(i, x) THEN Exit(1, "test_failed")
                  ELSE IF i = Len(JwtRequests) THEN Exit(0, "")
                  ELSE UNCHANGED <<pc, exitCode, err>>
    /\ UNCHANGED <<scenario, lastStatus, handle, calls, timeVars, corrVars, backendVars>>
    /\ UNCHANGED <<obsVars, arrayVars, taskIoVars, webVars, scVars, queueVars, sfnVars,
                   e2eVars, diagVars, waitVars>>
    /\ UNCHANGED <<loopVars, srvVars, bwVars>>

\* ------------------------------------------------ Service Connect test runner

\* testHandler, lines 435-441: the requests parameter, 20 by default and when
\* it is not a positive number.
RequestCountOf(n) == IF n > 0 THEN n ELSE DefaultRequests

\* testHandler, lines 456-487: distribution[echoResp.ServerID]++ for a request
\* that was answered 200 with a JSON body; a failed request leaves the map.
CountAnswer(dist, answer) ==
    IF answer \notin Backends THEN dist
    ELSE IF answer \in DOMAIN dist THEN [dist EXCEPT ![answer] = @ + 1]
    ELSE dist @@ (answer :> 1)

\* Mutant of TestSucceeded: one backend is enough.
TestSucceededWithOne(uniqueBackends) == uniqueBackends >= 1

\* testHandler, lines 495-497: success.
TestSucceeded(uniqueBackends) == uniqueBackends >= MinUniqueBackends

\* What the two DescribeServices calls of waitForServices can show.
ServicesObservations == [backend : {1, 2}, frontend : {0, 1}]

\* waitForServices, line 146, with the counts of the call at line 58.
ServicesReady(o) == o.backend >= BackendCount /\ o.frontend >= FrontendCount

\* waitForServices, lines 109-152, called at main, lines 56-60: one turn of
\* the loop.  The context's error once the context is done, an error when a
\* DescribeServices fails or shows no service, nil when both services run
\* enough tasks, a sleep of 5 seconds otherwise.
ScWaitForServices ==
    /\ scenario = "sc"
    /\ pc = "start"
    /\ IF now < ContextTimeout
       THEN \/ /\ Exit(1, "describe_failed")
               /\ UNCHANGED <<now, waitVars>>
            \/ \E o \in ServicesObservations :
                 /\ observed' = [observed EXCEPT !["waitForServices"] = o]
                 /\ IF ServicesReady(o)
                    THEN /\ pc' = "sc_ip"
                         /\ ready' = ready \cup {"waitForServices"}
                         /\ UNCHANGED now
                    ELSE /\ now' = now + WaitSleep
                         /\ UNCHANGED <<pc, ready>>
                 /\ UNCHANGED <<exitCode, err>>
       ELSE /\ Exit(1, "wait_timeout")
            /\ UNCHANGED <<now, waitVars>>
    /\ UNCHANGED <<scenario, lastStatus, handle, calls, t0, corrVars, backendVars>>
    /\ UNCHANGED <<obsVars, arrayVars, taskIoVars, webVars, jwtVars, scVars, queueVars,
                   sfnVars, e2eVars, diagVars>>
    /\ UNCHANGED <<loopVars, srvVars, bwVars>>

\* main, lines 62-68: getFrontendPublicIP.
ScGetFrontendPublicIP ==
    /\ scenario = "sc"
    /\ pc = "sc_ip"
    /\ \/ Exit(1, "no_frontend_ip")
       \/ /\ pc' = "sc_health"
          /\ UNCHANGED <<exitCode, err>>
    /\ UNCHANGED <<scenario, lastStatus, handle, calls, timeVars, corrVars, backendVars>>
    /\ UNCHANGED <<obsVars, arrayVars, taskIoVars, webVars, jwtVars, scVars, queueVars,
                   sfnVars, e2eVars, diagVars, waitVars>>
    /\ UNCHANGED <<loopVars, srvVars, bwVars>>

\* waitForHealth, lines 268-290, called at main, lines 70-76: one turn of the
\* loop.
ScWaitForHealth ==
    /\ scenario = "sc"
    /\ pc = "sc_health"
    /\ WaitForHealthTurn("sc_call")
    /\ UNCHANGED <<scenario, lastStatus, handle, calls, t0, corrVars, backendVars>>
    /\ UNCHANGED <<obsVars, arrayVars, taskIoVars, webVars, jwtVars, scVars, queueVars,
                   sfnVars, e2eVars, diagVars>>
    /\ UNCHANGED <<loopVars, srvVars, bwVars>>

\* runTest, lines 292-302: GET /api/test?requests=N is sent to the frontend.
ScCallTest ==
    /\ scenario = "sc"
    /\ pc = "sc_call"
    /\ \/ Exit(1, "request_not_sent")
       \/ /\ pc' = "sc_wait"
          /\ UNCHANGED <<exitCode, err>>
    /\ UNCHANGED <<scenario, lastStatus, handle, calls, timeVars, corrVars, backendVars>>
    /\ UNCHANGED <<obsVars, arrayVars, taskIoVars, webVars, jwtVars, scVars, queueVars,
                   sfnVars, e2eVars, diagVars, waitVars>>
    /\ UNCHANGED <<loopVars, srvVars, bwVars>>

\* testHandler, lines 454-493: one turn of the request loop.
FrontendSendsRequest ==
    /\ scenario = "sc"
    /\ pc = "sc_wait" \/ (pc = "exit" /\ err = "test_request_failed")
    /\ ~testResult.produced
    /\ Len(answers) < RequestCountOf(requestFlag)
    /\ \E answer \in Backends \cup BackendFailures :
         /\ answers' = Append(answers, answer)
         /\ distribution' = CountAnswer(distribution, answer)
         /\ successCount' = IF answer \in Backends THEN successCount + 1 ELSE successCount
         /\ failureCount' = IF answer \in Backends THEN failureCount ELSE failureCount + 1
    /\ UNCHANGED <<runnerVars, timeVars, corrVars, backendVars>>
    /\ UNCHANGED <<obsVars, arrayVars, taskIoVars, webVars, jwtVars, requestFlag, testResult,
                   queueVars, sfnVars, e2eVars, diagVars, waitVars>>
    /\ UNCHANGED <<loopVars, srvVars, bwVars>>

\* testHandler, lines 495-526: the response is built and written.
FrontendResponds ==
    /\ scenario = "sc"
    /\ pc = "sc_wait" \/ (pc = "exit" /\ err = "test_request_failed")
    /\ ~testResult.produced
    /\ Len(answers) = RequestCountOf(requestFlag)
    /\ LET uniqueBackends == Cardinality(DOMAIN distribution)
       IN testResult' =
            [total_requests |-> RequestCountOf(requestFlag),
             success_count |-> successCount,
             failure_count |-> failureCount,
             unique_backends |-> uniqueBackends,
             distribution |-> distribution,
             success |-> TestSucceeded(uniqueBackends),
             produced |-> TRUE]
    /\ UNCHANGED <<runnerVars, timeVars, corrVars, backendVars>>
    /\ UNCHANGED <<obsVars, arrayVars, taskIoVars, webVars, jwtVars, requestFlag, answers,
                   distribution, successCount, failureCount, queueVars, sfnVars, e2eVars,
                   diagVars, waitVars>>
    /\ UNCHANGED <<loopVars, srvVars, bwVars>>

\* runTest, lines 300-316, when no usable response arrives: the client's
\* timeout passes, or the response does not parse.
ScRunTestFails ==
    /\ scenario = "sc"
    /\ pc = "sc_wait"
    /\ Exit(1, "test_request_failed")
    /\ UNCHANGED <<scenario, lastStatus, handle, calls, timeVars, corrVars, backendVars>>
    /\ UNCHANGED <<obsVars, arrayVars, taskIoVars, webVars, jwtVars, scVars, queueVars,
                   sfnVars, e2eVars, diagVars, waitVars>>
    /\ UNCHANGED <<loopVars, srvVars, bwVars>>

\* main of the runner, lines 82-106: the result is printed and checked.
ScCheckResult ==
    /\ scenario = "sc"
    /\ pc = "sc_wait"
    /\ testResult.produced
    /\ IF testResult.success THEN Exit(0, "") ELSE Exit(1, "test_failed")
    /\ UNCHANGED <<scenario, lastStatus, handle, calls, timeVars, corrVars, backendVars>>
    /\ UNCHANGED <<obsVars, arrayVars, taskIoVars, webVars, jwtVars, scVars, queueVars,
                   sfnVars, e2eVars, diagVars, waitVars>>
    /\ UNCHANGED <<loopVars, srvVars, bwVars>>

\* ------------------------------------------- state machine and its tasks

\* The items the initial task puts in parallelItems, lines 72-76.
DummyItems == <<"item_A", "item_B", "item_C">>

\* The outputs of the two kinds of task, lines 18-27.
InitialStepOutput == [message |-> "Output from Initial Step", parallelItems |-> DummyItems]
ParallelTaskOutput(input) ==
    [resultMessage |-> <<"Successfully processed parallel item: ", input>>]

\* A task waiting for its token to be answered.  The state's Parameters give
\* every task its token ($$.Task.Token) and its input; calls are the
\* SendTask calls the task has made.
TaskRun(state, input) ==
    [state |-> state, token |-> TRUE, input |-> input, report |-> "",
     output |-> [none |-> TRUE], calls |-> <<>>]

\* What main reports for an input, and with which output: an input that is
\* not a JSON object is a failure (lines 49-53); an object with the key
\* task_input makes the task a parallel task, any other object the initial
\* task (lines 58-85).
ReportOf(input) == IF input.object THEN "success" ELSE "failure"
OutputOf(input) ==
    IF ~input.object THEN [error |-> "InvalidInputJSON"]
    ELSE IF "task_input" \in input.keys THEN ParallelTaskOutput(input)
    ELSE InitialStepOutput

\* Mutant of JobRunnerMain: main goes on after sendFailure and sends the
\* success as well.
JobRunnerMainGoesOn(run, configOk, callOk) ==
    [run EXCEPT !.report = IF ~run.token \/ ~(configOk /\ callOk) THEN "lost"
                           ELSE ReportOf(run.input),
                !.output = IF run.token /\ configOk /\ callOk THEN OutputOf(run.input) ELSE @,
                !.calls = IF ~run.token \/ ~configOk THEN <<>>
                          ELSE IF run.input.object THEN <<"SendTaskSuccess">>
                          ELSE <<"SendTaskFailure", "SendTaskSuccess">>]

\* main of the task, lines 29-94, with sendSuccess and sendFailure, lines
\* 98-133: the SendTask calls made and what reaches Step Functions.  Without
\* a token main ends at once (34-37).  sendFailure is followed by log.Fatal,
\* so a run makes one call at most.  Nothing is reported ("lost") when the
\* SDK configuration cannot be loaded (configOk = FALSE: sendSuccess ends the
\* process at 100-102, sendFailure returns at 119-122) or when the SendTask
\* call fails (callOk = FALSE: 110-113, 130-132).
JobRunnerMain(run, configOk, callOk) ==
    [run EXCEPT !.report = IF ~run.token \/ ~(configOk /\ callOk) THEN "lost"
                           ELSE ReportOf(run.input),
                !.output = IF run.token /\ configOk /\ callOk THEN OutputOf(run.input) ELSE @,
                !.calls = IF ~run.token \/ ~configOk THEN <<>>
                          ELSE IF run.input.object THEN <<"SendTaskSuccess">>
                          ELSE <<"SendTaskFailure">>]

\* The iterations whose task has been started and has not reported.
RunningIterations ==
    {i \in 1..Len(iterations) :
        iterations[i].task # 0 /\ taskRuns[iterations[i].task].report \in {"", "lost"}}

\* StartAt: the execution starts in InitialStep, whose task gets the
\* execution input as TASK_INPUT.
SfnStartExecution ==
    /\ scenario = "statemachine"
    /\ sfnStatus = "NONE"
    /\ sfnStatus' = "RUNNING"
    /\ sfnState' = "InitialStep"
    /\ taskRuns' = <<TaskRun("InitialStep", sfnInput)>>
    /\ UNCHANGED <<sfnInput, iterations>>
    /\ UNCHANGED <<runnerVars, timeVars, corrVars, backendVars, obsVars, arrayVars, taskIoVars,
                   webVars, jwtVars, scVars, queueVars, e2eVars, diagVars, waitVars>>
    /\ UNCHANGED <<loopVars, srvVars, bwVars>>

\* A task that has not reported runs main to its end.
TaskReports ==
    /\ scenario = "statemachine"
    /\ sfnStatus = "RUNNING"
    /\ \E t \in 1..Len(taskRuns), configOk \in BOOLEAN, callOk \in BOOLEAN :
         /\ taskRuns[t].report = ""
         /\ taskRuns' = [taskRuns EXCEPT ![t] = JobRunnerMain(@, configOk, callOk)]
    /\ UNCHANGED <<sfnInput, sfnState, sfnStatus, iterations>>
    /\ UNCHANGED <<runnerVars, timeVars, corrVars, backendVars, obsVars, arrayVars, taskIoVars,
                   webVars, jwtVars, scVars, queueVars, e2eVars, diagVars, waitVars>>
    /\ UNCHANGED <<loopVars, srvVars, bwVars>>

\* InitialStep ends: on a failure report the execution fails; on success the
\* output goes to $.initialTaskOutput and the Map state resolves its
\* ItemsPath $.initialTaskOutput.parallelItems, which fails the execution
\* when the path is not there.
SfnInitialStepEnds ==
    /\ scenario = "statemachine"
    /\ sfnState = "InitialStep"
    /\ sfnStatus = "RUNNING"
    /\ taskRuns[1].report \in {"success", "failure"}
    /\ IF taskRuns[1].report = "success" /\ "parallelItems" \in DOMAIN taskRuns[1].output
       THEN /\ sfnState' = "ParallelSteps"
            /\ iterations' = [i \in 1..Len(taskRuns[1].output.parallelItems) |->
                                [item |-> taskRuns[1].output.parallelItems[i], task |-> 0]]
            /\ UNCHANGED sfnStatus
       ELSE /\ sfnStatus' = "FAILED"
            /\ UNCHANGED <<sfnState, iterations>>
    /\ UNCHANGED <<sfnInput, taskRuns>>
    /\ UNCHANGED <<runnerVars, timeVars, corrVars, backendVars, obsVars, arrayVars, taskIoVars,
                   webVars, jwtVars, scVars, queueVars, e2eVars, diagVars, waitVars>>
    /\ UNCHANGED <<loopVars, srvVars, bwVars>>

\* ParallelSteps starts the task of one more item, the item being the
\* task's TASK_INPUT, while fewer than MaxConcurrency are running.
SfnIterationStarts ==
    /\ scenario = "statemachine"
    /\ sfnState = "ParallelSteps"
    /\ sfnStatus = "RUNNING"
    /\ Cardinality(RunningIterations) < MaxConcurrency
    /\ \E i \in 1..Len(iterations) :
         /\ iterations[i].task = 0
         /\ \A j \in 1..(i - 1) : iterations[j].task # 0
         /\ taskRuns' = Append(taskRuns, TaskRun("RunParallelTask", WorkflowJson(TRUE, {"task_input"})))
         /\ iterations' = [iterations EXCEPT ![i].task = Len(taskRuns) + 1]
    /\ UNCHANGED <<sfnInput, sfnState, sfnStatus>>
    /\ UNCHANGED <<runnerVars, timeVars, corrVars, backendVars, obsVars, arrayVars, taskIoVars,
                   webVars, jwtVars, scVars, queueVars, e2eVars, diagVars, waitVars>>
    /\ UNCHANGED <<loopVars, srvVars, bwVars>>

\* ParallelSteps ends: failed as soon as an iteration's task reported a
\* failure, and on to WorkflowSucceed when every iteration's task reported
\* success.
SfnParallelStepsEnds ==
    /\ scenario = "statemachine"
    /\ sfnState = "ParallelSteps"
    /\ sfnStatus = "RUNNING"
    /\ LET reports == [i \in 1..Len(iterations) |->
                         IF iterations[i].task = 0 THEN "" ELSE taskRuns[iterations[i].task].report]
       IN \/ /\ \E i \in 1..Len(iterations) : reports[i] = "failure"
             /\ sfnStatus' = "FAILED"
             /\ UNCHANGED sfnState
          \/ /\ \A i \in 1..Len(iterations) : reports[i] = "success"
             /\ sfnStatus' = "SUCCEEDED"
             /\ sfnState' = "WorkflowSucceed"
    /\ UNCHANGED <<sfnInput, taskRuns, iterations>>
    /\ UNCHANGED <<runnerVars, timeVars, corrVars, backendVars, obsVars, arrayVars, taskIoVars,
                   webVars, jwtVars, scVars, queueVars, e2eVars, diagVars, waitVars>>
    /\ UNCHANGED <<loopVars, srvVars, bwVars>>

\* ----------------------------------------------------- webapp run-e2e.sh

\* Lines 13-22: CLEANUP is true unless an argument is --no-cleanup.
ParseCleanup(args) == ~(\E i \in 1..Len(args) : args[i] = "--no-cleanup")

\* Line 28: ./destroy.sh || true.
DestroyOrTrue(destroyStatus) == 0

\* Mutant of ExitStatusAfterTrap: the trap's status becomes the script's.
ExitStatusOfTrap(status, trapStatus) == trapStatus

\* Line 34, trap cleanup EXIT: the trap does not call exit, so the script
\* ends with the status it had when the trap was entered.
ExitStatusAfterTrap(status, trapStatus) == status

\* Lines 13-34: the arguments are parsed and the EXIT trap is set.
E2eParseArgs ==
    /\ scenario = "e2e"
    /\ pc = "start"
    /\ cleanupFlag' = ParseCleanup(e2eArgs)
    /\ pc' = "e2e_run"
    /\ UNCHANGED <<scenario, exitCode, err, lastStatus, handle, calls, timeVars, corrVars, backendVars>>
    /\ UNCHANGED <<obsVars, arrayVars, taskIoVars, webVars, jwtVars, scVars, queueVars,
                   sfnVars, e2eArgs, e2eStep, commandStatus, destroyRuns, diagVars, waitVars>>
    /\ UNCHANGED <<loopVars, srvVars, bwVars>>

\* Lines 36-87: the next command runs.  Under set -e a failing command ends
\* the script with its status; after the test runner succeeded the script
\* runs to its end.  Either way the EXIT trap is next.
E2eRunCommand ==
    /\ scenario = "e2e"
    /\ pc = "e2e_run"
    /\ e2eStep < Len(E2eCommands)
    /\ \E status \in CommandStatuses :
         /\ e2eStep' = e2eStep + 1
         /\ commandStatus' = status
         /\ pc' = IF status # 0 \/ e2eStep + 1 = Len(E2eCommands) THEN "e2e_trap" ELSE pc
    /\ UNCHANGED <<scenario, exitCode, err, lastStatus, handle, calls, timeVars, corrVars, backendVars>>
    /\ UNCHANGED <<obsVars, arrayVars, taskIoVars, webVars, jwtVars, scVars, queueVars,
                   sfnVars, e2eArgs, cleanupFlag, destroyRuns, diagVars, waitVars>>
    /\ UNCHANGED <<loopVars, srvVars, bwVars>>

\* Lines 24-32, cleanup run by the EXIT trap: destroy.sh when CLEANUP is
\* true, its failure ignored; then the script ends.
E2eCleanup ==
    /\ scenario = "e2e"
    /\ pc = "e2e_trap"
    /\ \E destroyStatus \in CommandStatuses :
         LET trapStatus == IF cleanupFlag THEN DestroyOrTrue(destroyStatus) ELSE 0
             status == ExitStatusAfterTrap(commandStatus, trapStatus)
         IN /\ destroyRuns' = IF cleanupFlag THEN destroyRuns + 1 ELSE destroyRuns
            /\ Exit(status, IF status = 0 THEN "" ELSE E2eCommands[e2eStep])
    /\ UNCHANGED <<scenario, lastStatus, handle, calls, timeVars, corrVars, backendVars>>
    /\ UNCHANGED <<obsVars, arrayVars, taskIoVars, webVars, jwtVars, scVars, queueVars,
                   sfnVars, e2eArgs, cleanupFlag, e2eStep, commandStatus, diagVars, waitVars>>
    /\ UNCHANGED <<loopVars, srvVars, bwVars>>

\* ------------------------------------------------- SQS worker alone

\* Lines 47-51, the signal goroutine: a SIGINT or SIGTERM arrives and
\* cancel() is called, at any point of main.
WorkerSignal ==
    /\ scenario = "worker"
    /\ mainPc # "returned"
    /\ ~ctxDone
    /\ ctxDone' = TRUE
    /\ UNCHANGED <<mainPc, messages, batch, polls, lateCalls>>
    /\ UNCHANGED <<runnerVars, timeVars, corrVars, backendVars, obsVars, arrayVars, taskIoVars,
                   webVars, jwtVars, scVars, queueVars, sfnVars, e2eVars, diagVars, waitVars>>
    /\ UNCHANGED <<srvVars, bwVars>>

\* Lines 65-69: the select of the polling loop.  The default branch is taken
\* only when ctx.Done() is not ready.
SelectBranch(done) == IF done THEN "returned" ELSE "receive"

\* Lines 64-69: main is at the select and takes a branch.
WorkerSelect ==
    /\ scenario = "worker"
    /\ mainPc = "select"
    /\ mainPc' = SelectBranch(ctxDone)
    /\ UNCHANGED <<ctxDone, messages, batch, polls, lateCalls>>
    /\ UNCHANGED <<runnerVars, timeVars, corrVars, backendVars, obsVars, arrayVars, taskIoVars,
                   webVars, jwtVars, scVars, queueVars, sfnVars, e2eVars, diagVars, waitVars>>
    /\ UNCHANGED <<srvVars, bwVars>>

\* Mutant of ReceiveAnswers: a call with a cancelled context still delivers.
ReceiveAnswersIgnoringContext(done) == {"error", "messages"}

\* How a ReceiveMessage call can end: with an error, or with the visible
\* messages (none, if none is visible).  With a cancelled context it ends
\* with the context's error.
ReceiveAnswers(done) == IF done THEN {"error"} ELSE {"error", "messages"}

\* pollAndProcess, lines 81-86: ReceiveMessage is called (long polling).  A
\* worker that was not told to stop makes MaxPolls calls at most.
WorkerCallsReceive ==
    /\ scenario = "worker"
    /\ mainPc = "receive"
    /\ ctxDone \/ polls < MaxPolls
    /\ polls' = polls + 1
    /\ lateCalls' = IF ctxDone THEN lateCalls + 1 ELSE lateCalls
    /\ mainPc' = "polling"
    /\ UNCHANGED <<ctxDone, messages, batch>>
    /\ UNCHANGED <<runnerVars, timeVars, corrVars, backendVars, obsVars, arrayVars, taskIoVars,
                   webVars, jwtVars, scVars, queueVars, sfnVars, e2eVars, diagVars, waitVars>>
    /\ UNCHANGED <<srvVars, bwVars>>

\* The visible messages, in the order they are delivered.
VisibleMessages ==
    (IF messages["m1"].state = "visible" THEN <<"m1">> ELSE <<>>)
      \o (IF messages["m2"].state = "visible" THEN <<"m2">> ELSE <<>>)

\* pollAndProcess, lines 87-96: the call returns.  An error goes back to
\* main, which sleeps; no message goes back to the select; messages are
\* hidden for the visibility timeout and processed one by one.
WorkerReceiveReturns ==
    /\ scenario = "worker"
    /\ mainPc = "polling"
    /\ \E answer \in ReceiveAnswers(ctxDone) :
         IF answer = "error"
         THEN /\ mainPc' = "sleep"
              /\ UNCHANGED <<messages, batch>>
         ELSE /\ batch' = VisibleMessages
              /\ messages' = [m \in WorkerMessages |->
                                IF messages[m].state = "visible"
                                THEN [messages[m] EXCEPT !.state = "inflight",
                                                         !.receives = @ + 1]
                                ELSE messages[m]]
              /\ mainPc' = IF VisibleMessages = <<>> THEN "select" ELSE "batch"
    /\ UNCHANGED <<ctxDone, polls, lateCalls>>
    /\ UNCHANGED <<runnerVars, timeVars, corrVars, backendVars, obsVars, arrayVars, taskIoVars,
                   webVars, jwtVars, scVars, queueVars, sfnVars, e2eVars, diagVars, waitVars>>
    /\ UNCHANGED <<srvVars, bwVars>>

\* Mutant of ProcessMessage: a body that does not decode into a JobMessage
\* makes processMessage return an error.
ProcessMessageParseError(messageID, body, deleteOk) ==
    [result |-> [job_id |-> IF body.jobId = "" THEN messageID ELSE body.jobId,
                 status |-> "success",
                 message |-> "Job processed successfully"],
     returned |-> IF deleteOk /\ body.typed THEN "nil" ELSE "error"]

\* processMessage, lines 109-156, as a function of the message and of how
\* DeleteMessage ended: the result that is logged and the error returned.
\* The status is always success; job_id is the decoded one, or the SQS
\* message id when none was decoded (lines 130-132); the only error is that of
\* DeleteMessage (lines 146-152).
ProcessMessage(messageID, body, deleteOk) ==
    [result |-> [job_id |-> IF body.jobId = "" THEN messageID ELSE body.jobId,
                 status |-> "success",
                 message |-> "Job processed successfully"],
     returned |-> IF deleteOk THEN "nil" ELSE "error"]

\* pollAndProcess, lines 98-104: the next message of the batch is processed.
\* DeleteMessage may fail, and fails when the context was cancelled; a
\* message that was not deleted stays in flight.
WorkerProcessMessage ==
    /\ scenario = "worker"
    /\ mainPc = "batch"
    /\ \E deleteOk \in (IF ctxDone THEN {FALSE} ELSE BOOLEAN) :
         LET m == Head(batch)
             done == ProcessMessage(m, messages[m].body, deleteOk)
         IN messages' = [messages EXCEPT
                           ![m].result = done.result,
                           ![m].returned = done.returned,
                           ![m].state = IF deleteOk THEN "deleted" ELSE @,
                           ![m].failures = IF deleteOk THEN @ ELSE @ + 1]
    /\ batch' = Tail(batch)
    /\ mainPc' = IF Tail(batch) = <<>> THEN "select" ELSE "batch"
    /\ UNCHANGED <<ctxDone, polls, lateCalls>>
    /\ UNCHANGED <<runnerVars, timeVars, corrVars, backendVars, obsVars, arrayVars, taskIoVars,
                   webVars, jwtVars, scVars, queueVars, sfnVars, e2eVars, diagVars, waitVars>>
    /\ UNCHANGED <<srvVars, bwVars>>

\* main, lines 70-74: the sleep of 5 seconds after an error ends.
WorkerSleepEnds ==
    /\ scenario = "worker"
    /\ mainPc = "sleep"
    /\ mainPc' = "select"
    /\ UNCHANGED <<ctxDone, messages, batch, polls, lateCalls>>
    /\ UNCHANGED <<runnerVars, timeVars, corrVars, backendVars, obsVars, arrayVars, taskIoVars,
                   webVars, jwtVars, scVars, queueVars, sfnVars, e2eVars, diagVars, waitVars>>
    /\ UNCHANGED <<srvVars, bwVars>>

\* Backend: the visibility timeout of a message that was not deleted passes;
\* the message is visible again, or in the dead-letter queue once it was
\* received maxReceiveCount times.
WorkerMessageReturns ==
    /\ scenario = "worker"
    /\ \E m \in WorkerMessages :
         /\ messages[m].state = "inflight"
         /\ \A i \in 1..Len(batch) : batch[i] # m
         /\ messages' = [messages EXCEPT
                           ![m].state = IF messages[m].receives >= MaxReceiveCount
                                        THEN "dlq" ELSE "visible"]
    /\ UNCHANGED <<mainPc, ctxDone, batch, polls, lateCalls>>
    /\ UNCHANGED <<runnerVars, timeVars, corrVars, backendVars, obsVars, arrayVars, taskIoVars,
                   webVars, jwtVars, scVars, queueVars, sfnVars, e2eVars, diagVars, waitVars>>
    /\ UNCHANGED <<srvVars, bwVars>>

\* ------------------------------------------------- HTTP servers

\* A request is accepted while the listener is open.
ServerAcceptsRequest ==
    /\ scenario = "server"
    /\ serverMain = "serving"
    /\ shutdownPc = "waiting"
    /\ inFlight < MaxInFlight
    /\ inFlight' = inFlight + 1
    /\ UNCHANGED <<serverMain, shutdownPc, dropped>>
    /\ UNCHANGED <<runnerVars, timeVars, corrVars, backendVars, obsVars, arrayVars, taskIoVars,
                   webVars, jwtVars, scVars, queueVars, sfnVars, e2eVars, diagVars, waitVars,
                   loopVars>>
    /\ UNCHANGED bwVars

\* The handler of a request in flight returns, while the process lives.
ServerAnswersRequest ==
    /\ scenario = "server"
    /\ serverMain # "exited"
    /\ inFlight > 0
    /\ inFlight' = inFlight - 1
    /\ UNCHANGED <<serverMain, shutdownPc, dropped>>
    /\ UNCHANGED <<runnerVars, timeVars, corrVars, backendVars, obsVars, arrayVars, taskIoVars,
                   webVars, jwtVars, scVars, queueVars, sfnVars, e2eVars, diagVars, waitVars,
                   loopVars>>
    /\ UNCHANGED bwVars

\* backend main, lines 61-71: the signal goroutine gets a SIGINT or SIGTERM
\* and calls server.Shutdown with a context of 30 seconds.  Shutdown closes
\* the listener at once and then waits for the requests in flight.
ServerShutdownCalled ==
    /\ scenario = "server"
    /\ serverMain # "exited"
    /\ shutdownPc = "waiting"
    /\ shutdownPc' = "shutdown"
    /\ UNCHANGED <<serverMain, inFlight, dropped>>
    /\ UNCHANGED <<runnerVars, timeVars, corrVars, backendVars, obsVars, arrayVars, taskIoVars,
                   webVars, jwtVars, scVars, queueVars, sfnVars, e2eVars, diagVars, waitVars,
                   loopVars>>
    /\ UNCHANGED bwVars

\* server.Shutdown returns: nil once no request is in flight, or the
\* context's error when the 30 seconds have passed with requests in flight.
ServerShutdownReturns ==
    /\ scenario = "server"
    /\ serverMain # "exited"
    /\ shutdownPc = "shutdown"
    /\ shutdownPc' = IF inFlight = 0 THEN "returned" ELSE "timed_out"
    /\ UNCHANGED <<serverMain, inFlight, dropped>>
    /\ UNCHANGED <<runnerVars, timeVars, corrVars, backendVars, obsVars, arrayVars, taskIoVars,
                   webVars, jwtVars, scVars, queueVars, sfnVars, e2eVars, diagVars, waitVars,
                   loopVars>>
    /\ UNCHANGED bwVars

\* backend main, lines 75-79: ListenAndServe returns http.ErrServerClosed as
\* soon as Shutdown has been called, and main logs that the server stopped.
ServerListenAndServeReturns ==
    /\ scenario = "server"
    /\ serverMain = "serving"
    /\ shutdownPc # "waiting"
    /\ serverMain' = "logged_stopped"
    /\ UNCHANGED <<shutdownPc, inFlight, dropped>>
    /\ UNCHANGED <<runnerVars, timeVars, corrVars, backendVars, obsVars, arrayVars, taskIoVars,
                   webVars, jwtVars, scVars, queueVars, sfnVars, e2eVars, diagVars, waitVars,
                   loopVars>>
    /\ UNCHANGED bwVars

\* backend main, line 80: main returns and the process ends, with its
\* goroutines and the requests they were handling.
ServerMainReturns ==
    /\ scenario = "server"
    /\ serverMain = "logged_stopped"
    /\ serverMain' = "exited"
    /\ dropped' = inFlight
    /\ inFlight' = 0
    /\ UNCHANGED shutdownPc
    /\ UNCHANGED <<runnerVars, timeVars, corrVars, backendVars, obsVars, arrayVars, taskIoVars,
                   webVars, jwtVars, scVars, queueVars, sfnVars, e2eVars, diagVars, waitVars,
                   loopVars>>
    /\ UNCHANGED bwVars

\* batchworker main, lines 25-75, run with any AWS_BATCH_JOB_ARRAY_INDEX:
\* log.Fatalf when JOB_INPUT is not JSON (line 54), else processJob; a
\* panic ends the process with status 2 and no output.
BatchWorkerMain ==
    /\ scenario = "batchworker"
    /\ pc = "start"
    /\ LET input == ParseJobInput(jobInput)
           read == ItemsIndexRead(arrayIndexEnv, input)
       IN IF ~input.ok
          THEN /\ Exit(1, "bad_input")
               /\ UNCHANGED <<workerOutput, itemsRead>>
          ELSE /\ itemsRead' = read
               /\ IF \E i \in read : i < 0
                  THEN /\ Exit(2, "panic")
                       /\ UNCHANGED workerOutput
                  ELSE /\ Exit(0, "")
                       /\ workerOutput' = ProcessJob(arrayIndexEnv, input)
    /\ UNCHANGED <<scenario, lastStatus, handle, calls, arrayIndexEnv>>
    /\ UNCHANGED <<timeVars, corrVars, backendVars, obsVars, arrayVars, taskIoVars,
                   webVars, jwtVars, scVars, queueVars, sfnVars, e2eVars, diagVars, waitVars,
                   loopVars, srvVars>>

\* ------------------------------------- oneoff and batchjobs run-e2e.sh

\* Lines 11-15: PERFORM_CLEANUP is true unless the first argument is
\* --no-cleanup.
PerformCleanup(args) == ~(Len(args) >= 1 /\ args[1] = "--no-cleanup")

\* The status the script ends with when a step fails with a status: 1 from
\* error (lines 28-31) for a step followed by || error, the step's own
\* status under set -e for the terraform output calls.
ScriptStatus(command, status) == IF command = "terraform output" THEN status ELSE 1

\* Lines 11-15: the flag is read.  The script sets no trap.
ScriptParseArgs ==
    /\ scenario = "e2e_scripts"
    /\ pc = "start"
    /\ cleanupFlag' = PerformCleanup(e2eArgs)
    /\ pc' = "script_run"
    /\ UNCHANGED <<scenario, exitCode, err, lastStatus, handle, calls, timeVars, corrVars, backendVars>>
    /\ UNCHANGED <<obsVars, arrayVars, taskIoVars, webVars, jwtVars, scVars, queueVars,
                   sfnVars, e2eArgs, e2eStep, commandStatus, destroyRuns, diagVars, waitVars,
                   loopVars, srvVars, bwVars>>

\* oneoff run-e2e.sh, lines 33-113 (batchjobs run-e2e.sh, lines 32-95): the
\* next step runs.  A failing step ends
\* the script at once, through error or through set -e; nothing runs after
\* it.  After the test runner succeeded the script goes on to Step 3.
ScriptRunCommand ==
    /\ scenario = "e2e_scripts"
    /\ pc = "script_run"
    /\ e2eStep < Len(ScriptCommands)
    /\ \E status \in CommandStatuses :
         /\ e2eStep' = e2eStep + 1
         /\ commandStatus' = status
         /\ IF status # 0
            THEN Exit(ScriptStatus(ScriptCommands[e2eStep + 1], status),
                      ScriptCommands[e2eStep + 1])
            ELSE /\ pc' = IF e2eStep + 1 = Len(ScriptCommands) THEN "script_step3" ELSE pc
                 /\ UNCHANGED <<exitCode, err>>
    /\ UNCHANGED <<scenario, lastStatus, handle, calls, timeVars, corrVars, backendVars>>
    /\ UNCHANGED <<obsVars, arrayVars, taskIoVars, webVars, jwtVars, scVars, queueVars,
                   sfnVars, e2eArgs, cleanupFlag, destroyRuns, diagVars, waitVars,
                   loopVars, srvVars, bwVars>>

\* oneoff run-e2e.sh, lines 115-128 (batchjobs run-e2e.sh, lines 97-109):
\* Step 3 runs destroy.sh when
\* PERFORM_CLEANUP is true and ends with 1 when it fails, else with 0.
ScriptStep3 ==
    /\ scenario = "e2e_scripts"
    /\ pc = "script_step3"
    /\ IF cleanupFlag
       THEN \E destroyStatus \in CommandStatuses :
              /\ destroyRuns' = destroyRuns + 1
              /\ commandStatus' = destroyStatus
              /\ IF destroyStatus # 0 THEN Exit(1, "destroy.sh") ELSE Exit(0, "")
       ELSE /\ Exit(0, "")
            /\ UNCHANGED <<destroyRuns, commandStatus>>
    /\ UNCHANGED <<scenario, lastStatus, handle, calls, timeVars, corrVars, backendVars>>
    /\ UNCHANGED <<obsVars, arrayVars, taskIoVars, webVars, jwtVars, scVars, queueVars,
                   sfnVars, e2eArgs, cleanupFlag, e2eStep, diagVars, waitVars,
                   loopVars, srvVars, bwVars>>

Next ==
    \/ WorkerProcessedEarlierMessage
    \/ WorkerReceive
    \/ MoveToDeadLetterQueue
    \/ VisibilityTimeoutExpires
    \/ WorkerLogsProcessing
    \/ WorkerLogsResult
    \/ WorkerDeletes
    \/ SqsWaitForService
    \/ SqsSendMessage
    \/ SqsPoll
    \/ SqsSleep
    \/ TaskProgresses
    \/ OneoffRunTask
    \/ OneoffDescribe
    \/ OneoffSleep
    \/ JobProgresses
    \/ ChildProgresses
    \/ BatchSubmitJob
    \/ BatchPoll
    \/ BatchSleep
    \/ BatchFinish
    \/ ExecFinishes
    \/ EventStartsExecution
    \/ RuleFires
    \/ SchedPutRule
    \/ SchedListRules
    \/ SchedListTargets
    \/ SchedPutTargets
    \/ SchedWait
    \/ SchedListExecutions
    \/ SchedSleep
    \/ ExecuteDirectly
    \/ MonitorDescribe
    \/ MonitorSleep
    \/ MonitorFinish
    \/ EbPutEvents
    \/ EbFirstSleep
    \/ EbListExecutions
    \/ EbSleep
    \/ WebPreflight
    \/ WebRequestProtected
    \/ WebFetchLoginPage
    \/ WebExtractToken
    \/ WebPostLogin
    \/ WebFollowRedirect
    \/ WebVerifyCookie
    \/ WebAuthenticatedProfile
    \/ JwtWaitForHealth
    \/ JwtTest
    \/ ScWaitForServices
    \/ ScGetFrontendPublicIP
    \/ ScWaitForHealth
    \/ ScCallTest
    \/ FrontendSendsRequest
    \/ FrontendResponds
    \/ ScRunTestFails
    \/ ScCheckResult
    \/ VisibilityClockTicks
    \/ SfnStartExecution
    \/ TaskReports
    \/ SfnInitialStepEnds
    \/ SfnIterationStarts
    \/ SfnParallelStepsEnds
    \/ E2eParseArgs
    \/ E2eRunCommand
    \/ E2eCleanup
    \/ WorkerSignal
    \/ WorkerSelect
    \/ WorkerCallsReceive
    \/ WorkerReceiveReturns
    \/ WorkerProcessMessage
    \/ WorkerSleepEnds
    \/ WorkerMessageReturns
    \/ ServerAcceptsRequest
    \/ ServerAnswersRequest
    \/ ServerShutdownCalled
    \/ ServerShutdownReturns
    \/ ServerListenAndServeReturns
    \/ ServerMainReturns
    \/ BatchWorkerMain
    \/ ScriptParseArgs
    \/ ScriptRunCommand
    \/ ScriptStep3

Spec == Init /\ [][Next]_vars

\* The steps of the runner process and of the worker process.  Each process
\* keeps running while it has a step to take; the backends owe no progress.
RunnerStep ==
    \/ ExecuteDirectly \/ MonitorDescribe \/ MonitorSleep \/ MonitorFinish
    \/ EbPutEvents \/ EbFirstSleep \/ EbListExecutions \/ EbSleep
    \/ SchedPutRule \/ SchedListRules \/ SchedListTargets \/ SchedPutTargets
    \/ SchedWait \/ SchedListExecutions \/ SchedSleep
    \/ OneoffRunTask \/ OneoffDescribe \/ OneoffSleep
    \/ BatchSubmitJob \/ BatchPoll \/ BatchSleep \/ BatchFinish
    \/ SqsWaitForService \/ SqsSendMessage \/ SqsPoll \/ SqsSleep
    \/ WebPreflight \/ WebRequestProtected \/ WebFetchLoginPage \/ WebExtractToken
    \/ WebPostLogin \/ WebFollowRedirect \/ WebVerifyCookie \/ WebAuthenticatedProfile
    \/ JwtWaitForHealth \/ JwtTest
    \/ ScWaitForServices \/ ScGetFrontendPublicIP \/ ScWaitForHealth
    \/ ScCallTest \/ ScRunTestFails \/ ScCheckResult
    \/ E2eParseArgs \/ E2eRunCommand \/ E2eCleanup
    \/ BatchWorkerMain
    \/ ScriptParseArgs \/ ScriptRunCommand \/ ScriptStep3

WorkerStep ==
    \/ WorkerReceive \/ WorkerLogsProcessing \/ WorkerLogsResult \/ WorkerDeletes
    \/ WorkerSelect \/ WorkerCallsReceive \/ WorkerReceiveReturns \/ WorkerProcessMessage
    \/ WorkerSleepEnds

FairSpec == Spec /\ WF_vars(RunnerStep) /\ WF_vars(WorkerStep)

\* ---------------------------------------------------------------- claims

WaitLoopPcs ==
    {"monitor", "monitor_sleep", "oneoff_describe", "oneoff_sleep", "batch_poll", "batch_sleep"}

\* C1: every wait-for-terminal loop (workflow monitorExecution, one-off task
\* wait, batch job wait) that has been entered is eventually left, also when
\* the execution never becomes terminal, and a run never exits 0 with a
\* non-terminal status as the last one observed.
C1_WaitLoopEnds ==
    /\ (pc \in WaitLoopPcs) ~> (pc \notin WaitLoopPcs)
    /\ []((pc = "exit" /\ exitCode = 0 /\ scenario \in WorkflowScenarios \cup {"oneoff", "batch"})
            => lastStatus \in {"SUCCEEDED", "STOPPED"})

\* The one-off task counts as succeeded when some container reported exit
\* code 0 and none reported another one.
OneoffTaskSucceeded ==
    /\ taskStatus = "STOPPED"
    /\ \E i \in DOMAIN containers : containers[i] = 0
    /\ \A i \in DOMAIN containers : containers[i] \in {0, NoExitCode}

\* C2: a runner exits 0 only if the execution it waited on was last seen
\* successful (workflow and batch: SUCCEEDED; one-off: a STOPPED task whose
\* container reported exit code 0), and every failure exits non-zero.
C2_ExitZeroOnlyOnSuccess ==
    /\ (pc = "exit" /\ exitCode = 0 /\ scenario \in WorkflowScenarios \cup {"batch"})
          => lastStatus = "SUCCEEDED"
    /\ (pc = "exit" /\ exitCode = 0 /\ scenario = "oneoff")
          => (lastStatus = "STOPPED" /\ OneoffTaskSucceeded)
    /\ (pc = "exit" /\ err # "") => exitCode # 0

\* executeViaScheduledTrigger has returned after PutRule created the rule.
ScheduledReturnedWithRule ==
    /\ scenario = "scheduled"
    /\ pc \in {"exit", "monitor", "monitor_sleep", "finished"}
    /\ err # "put_rule_failed"

TargetWasAdded ==
    calls["PutTargets"] = 1 /\ err \notin {"put_targets_failed", "put_targets_failed_entry"}

MaxAttemptsOf(sc) == IF sc = "eventbridge" THEN EbMaxAttempts ELSE SchedMaxAttempts

\* C4: a correlation that ends with the correlation-timeout error has made
\* exactly maxAttempts list calls (10 in event mode, 20 in scheduled mode)
\* and slept maxAttempts - 1 times; no correlation makes more list calls,
\* and one whose maxAttempts list calls all returned without an accepted
\* execution ends with that error.
C4_ExactAttempts ==
    scenario \in {"eventbridge", "scheduled"} =>
        /\ listCalls <= MaxAttemptsOf(scenario)
        /\ sleeps <= listCalls
        /\ (pc = "exit" /\ err = "CorrelationTimeout") =>
              /\ listCalls = MaxAttemptsOf(scenario)
              /\ sleeps = MaxAttemptsOf(scenario) - 1
        /\ (pc = "exit" /\ handle = "" /\ listCalls = MaxAttemptsOf(scenario)) =>
              err \in {"CorrelationTimeout", "list_error"}

C4_Witness ==
    /\ pc = "exit"
    /\ err = "CorrelationTimeout"
    /\ scenario = "scheduled"
    /\ listCalls = SchedMaxAttempts
    /\ execs.other.status # "ABSENT"

\* The correlation window of event mode, relative to the time the event was
\* sent: the recency test less the initial pause, and the time of the last
\* attempt.
EbSkew == EbRecentSeconds - EbInitialSleep
EbMaxWait == EbInitialSleep + (EbMaxAttempts - 1) * EbAttemptSleep

\* C5: the execution returned by event-mode correlation started inside
\* [sent - skew, sent + maxWait]; none that started earlier is returned.
C5_AcceptedInsideWindow ==
    (scenario = "eventbridge" /\ handle # "") =>
        /\ execs[handle].start > t0 - EbSkew
        /\ execs[handle].start <= t0 + EbMaxWait

C5_Witness ==
    /\ scenario = "eventbridge"
    /\ handle = "new"
    /\ execs.other.status = "RUNNING"
    /\ execs.other.start = -EbSkew

\* The executions a list call made now returns and the scan accepts.
AcceptedNow ==
    IF scenario = "eventbridge"
    THEN {e \in ExecIds : Exists(e) /\ execs[e].status = "RUNNING" /\ StartedRecently(e)}
    ELSE {e \in ExecIds : Exists(e) /\ InScheduleWindow(e)}

\* C6: when a list result holds several accepted executions, correlation
\* returns the one that started last, whatever the order of the list.
C6_LatestAccepted ==
    [][(pc \in {"eb_list", "sched_list"} /\ pc' = "monitor")
          => \A e \in AcceptedNow : execs[e].start <= execs[handle'].start]_vars

\* C7: no submit operation is called more than once in a run.
C7_SubmitAtMostOnce == \A op \in SubmitOps : calls[op] <= 1

C7_Witness ==
    /\ pc = "exit"
    /\ err = "describe_error"
    /\ calls["StartExecution"] = 1

\* C8: an error of the describe call does not end a wait loop.
C8_DescribeErrorRetried == pc = "exit" => err # "describe_error"

\* C9: an empty describe result ends the run only once the runner's retry
\* budget (the batch runner's -timeout) is used up.
C9_NotFoundIsNotYet ==
    (pc = "exit" /\ err = "not_found") => (scenario = "batch" /\ TimedOut(t0, BatchTimeout))

\* C10: when the SQS runner has reported the message as processed, the
\* message has been deleted from the queue.
C10_ProcessedImpliesDeleted ==
    (scenario = "sqs" /\ pc = "exit" /\ exitCode = 0) => msgState = "deleted"

\* C11: a checkJobInLogs call that cannot list the streams, finds no stream
\* or cannot read a stream answers false: the run does not end, nothing of
\* the queue, the worker or its log changes, and the runner calls it again
\* after the 5 s pause for as long as the timeout has not passed.
C11_NotFoundIsRetried ==
    [][/\ (pc = "sqs_poll" /\ pc' # pc /\ now - t0 < SqsTimeout /\ lastCheck' # "scanned")
          => /\ pc' = "sqs_sleep"
             /\ exitCode' = -1
             /\ UNCHANGED <<backendVars, timeVars, handle, calls>>
       /\ (pc = "sqs_sleep" /\ pc' # pc)
          => (pc' = "sqs_poll" /\ now' = now + PollInterval)]_vars

C11_Witness ==
    /\ pc = "sqs_sleep"
    /\ lastCheck = "read_error"
    /\ ScanEvents(logEvents, FALSE)

AllChildrenSucceeded ==
    children # <<>> /\ \A i \in DOMAIN children : children[i].status = "SUCCEEDED"

C13_ChildProcessesOwnItem ==
    (scenario = "batch" /\ jobInput.set /\ jobInput.object
        /\ Len(jobInput.items) = ArraySize) =>
        /\ \A i \in DOMAIN children :
              children[i].status = "SUCCEEDED" =>
                 /\ children[i].output.status = "success"
                 /\ children[i].output.message =
                       <<"Processed item[", ToString(i - 1), "]: ", jobInput.items[i]>>
                 /\ \A j \in DOMAIN jobInput.items :
                       (j # i /\ jobInput.items[j] # jobInput.items[i])
                          => children[i].output.message[4] # jobInput.items[j]
        /\ (jobInput.items = <<"item-A", "item-B">> /\ AllChildrenSucceeded) =>
              /\ children[1].output.message = <<"Processed item[", "0", "]: ", "item-A">>
              /\ children[2].output.message = <<"Processed item[", "1", "]: ", "item-B">>

C13_Witness ==
    /\ scenario = "batch"
    /\ jobInput.items = <<"item-A", "item-B">>
    /\ AllChildrenSucceeded
    /\ children[2].output.arrayIndex = "1"

\* C14: the batch runner exits 0 only when fetchLogs has read the log stream
\* of every child of the submitted job, each holding that child's success
\* output, and has read no stream of another job.
C14_EveryChildSegmentChecked ==
    (scenario = "batch" /\ pc = "exit" /\ exitCode = 0) =>
        /\ \A i \in 1..ArraySize :
              /\ [job |-> handle, index |-> i - 1] \in fetched
              /\ children[i].output.status = "success"
        /\ \A st \in fetched : st.job = handle

\* What TASK_INPUT holds: "{}" when it is unset.
TaskInputText == IF taskInput.set THEN taskInput ELSE EmptyObject

\* The data field of TASK_INPUT as the output echoes it.
DataField == IF TaskInputText.data = Absent THEN <<>> ELSE <<TaskInputText.data>>

Phase ==
    CASE pc \in {"start", "sched_list_rules", "sched_list_targets", "sched_put_targets"}
            -> "Building"
      [] pc \in {"eb_initial_sleep", "sched_wait"} -> "Submitted"
      [] pc \in {"eb_list", "eb_sleep", "sched_list", "sched_sleep"} -> "Correlating"
      [] pc \in {"monitor", "monitor_sleep"} -> "Polling"
      [] pc = "finished" -> "Terminal"
      [] pc = "exit" /\ exitCode = 0 -> "Verified"
      [] OTHER -> "Failed"

\* The phases a phase may be followed by; Correlated is the step from
\* Correlating to Polling, and direct mode goes from Building to Polling.
PhaseSuccessors(ph) ==
    CASE ph = "Building" ->
            IF scenario = "direct" THEN {"Building", "Polling", "Failed"}
            ELSE {"Building", "Submitted", "Failed"}
      [] ph = "Submitted" -> {"Submitted", "Correlating"}
      [] ph = "Correlating" -> {"Correlating", "Polling", "Failed"}
      [] ph = "Polling" -> {"Polling", "Terminal", "Failed"}
      [] ph = "Terminal" -> {"Terminal", "Verified", "Failed"}
      [] OTHER -> {ph}

\* C16: a workflow-runner run goes through its phases in the order Building,
\* Submitted, Correlating, Polling, Terminal, Verified; it polls only with a
\* handle, reads the output only after it has seen SUCCEEDED, and in direct
\* mode makes no correlation step.
C16_PhaseOrder ==
    [][(scenario \in WorkflowScenarios) =>
          /\ Phase' \in PhaseSuccessors(Phase)
          /\ Phase' = "Polling" => handle' # ""
          /\ outputRead' => (Phase \in {"Terminal", "Verified"} /\ lastStatus = "SUCCEEDED")
          /\ Phase' = "Verified" => outputRead'
          /\ scenario = "direct" =>
                (listCalls' = 0 /\ Phase' \notin {"Submitted", "Correlating"})]_vars

C16_Witness ==
    /\ scenario = "eventbridge"
    /\ Phase = "Verified"
    /\ outputRead
    /\ listCalls = 2

\* The errors executeDirectly, executeViaEventBridge and
\* executeViaScheduledTrigger return.
StartErrors ==
    {"start_execution_failed", "put_events_failed", "put_events_failed_entry",
     "put_rule_failed", "role_lookup_failed", "put_targets_failed",
     "put_targets_failed_entry", "list_error", "CorrelationTimeout"}

\* C17: while an execute* function runs the runner holds no handle; when it
\* has returned without error the handle is non-empty and names an execution
\* that exists, and only then is monitorExecution run; when it has returned
\* an error the handle is empty.
C17_HandleIffStarted ==
    scenario \in WorkflowScenarios =>
        /\ Phase \in {"Building", "Submitted", "Correlating"} => handle = ""
        /\ Phase \in {"Polling", "Terminal", "Verified"} =>
              (handle \in ExecIds /\ Exists(handle))
        /\ (pc = "exit" /\ err \in StartErrors) => handle = ""
        /\ (pc = "exit" /\ err \notin StartErrors) => handle # ""

C17_Witness ==
    /\ scenario = "scheduled"
    /\ pc = "monitor"
    /\ handle = "other"
    /\ listCalls > 1

\* The parts of the diagnostic bundle.
DiagnosticBundle == {"state", "reason", "logs"}

\* What a runner prints besides the error message before it ends with
\* `cause`: the batch runner's printDiagnostics on its timeout (statuses and
\* status reasons, no logs) and status, reason and logs after a FAILED job;
\* the one-off runner's status, stopped reason and logs after the task has
\* stopped; the SQS runner's last log entries on its timeout; the workflow
\* runner's final status after a failed execution; nothing on the others.
DiagnosticsPrinted(sc, cause) ==
    CASE sc = "batch" /\ cause = "DeadlineExceeded" -> {"state", "reason"}
      [] sc = "batch" /\ cause = "job_failed" -> {"state", "reason", "logs"}
      [] sc = "oneoff" /\ cause = "container_exit" -> {"state", "reason", "logs"}
      [] sc = "sqs" /\ cause = "DeadlineExceeded" -> {"logs"}
      [] sc \in WorkflowScenarios /\ cause = "execution_failed" -> {"state"}
      [] OTHER -> {}

\* C18: a runner that ends non-zero on a polling timeout, a failed
\* execution, a describe error or a not-found answer has printed the whole
\* diagnostic bundle (state, reason, logs) first.
C18_DiagnosticsBeforeFatal ==
    (/\ pc = "exit"
     /\ exitCode # 0
     /\ err \in {"DeadlineExceeded", "job_failed", "container_exit", "execution_failed",
                 "describe_error", "not_found"})
        => DiagnosticsPrinted(scenario, err) = DiagnosticBundle

\* The step of the login handshake a request belongs to.
RequestRank(what) ==
    CASE what = "GET /app/profile" -> 1
      [] what = "GET login page" -> 2
      [] what = "POST /login" -> 3
      [] what = "GET redirect" -> 4
      [] OTHER -> 5

CredentialsPosted == \E k \in DOMAIN webLog : webLog[k] = "POST /login"

\* C19: the requests of the login handshake are sent in the order protected
\* request, login page, login POST, redirect chain, and the session cookie
\* is looked for after the chain; the credentials are posted once, only
\* after the protected request was answered 302 and a non-empty CSRF token
\* was taken from the login page; a run that fails on the first answer or on
\* the token has not posted them.
C19_HandshakeOrder ==
    scenario = "webapp" =>
        /\ \A j, k \in DOMAIN webLog :
              j < k => RequestRank(webLog[j]) <= RequestRank(webLog[k])
        /\ \A k \in DOMAIN webLog :
              RequestRank(webLog[k]) > 1 =>
                 \E j \in 1..(k - 1) : RequestRank(webLog[j]) = RequestRank(webLog[k]) - 1
                                          \/ (RequestRank(webLog[k]) = 5 /\ webLog[j] = "POST /login")
        /\ Cardinality({k \in DOMAIN webLog : webLog[k] = "POST /login"}) <= 1
        /\ CredentialsPosted =>
              /\ webLog[1] = "GET /app/profile"
              /\ csrfToken # ""
              /\ csrfToken = loginBody.token
        /\ (pc = "exit" /\ err \in {"not_redirected", "no_csrf_token"}) => ~CredentialsPosted
        /\ pc = "web_profile" => (CredentialsPosted /\ cookieSet)

C19_Witness ==
    /\ scenario = "webapp"
    /\ pc = "web_profile"
    /\ loginBody.form = "attrs_between"
    /\ redirectCount = 2

\* The requests sent to follow the redirect chain.
FollowRequests == Cardinality({k \in DOMAIN webLog : webLog[k] = "GET redirect"})

\* C20: after the login POST at most maxRedirects = 10 requests are sent to
\* follow the redirect chain, and the chain is left whatever the server
\* answers.
C20_RedirectChainBounded ==
    /\ [](scenario = "webapp" => (FollowRequests <= MaxRedirects /\ redirectCount <= MaxRedirects))
    /\ (pc = "web_redirects") ~> (pc # "web_redirects")

C20_Witness ==
    /\ scenario = "webapp"
    /\ pc = "web_profile"
    /\ httpStatus = StatusFound
    /\ redirectCount = MaxRedirects
    /\ FollowRequests = MaxRedirects

\* C21: the login handshake is reported successful only with the session
\* cookie in the jar after the redirect chain, the authenticated profile
\* request is sent only after that and after every request of the chain, and
\* the run passes only if that request was answered 200 with a non-empty
\* user_id, claims that are not null and has_token true.
C21_PassNeedsCookieAndProfile ==
    /\ pc = "web_profile" => (cookieSet /\ ~RedirectLoopContinues(httpStatus, redirectCount))
    /\ \A i \in 1..Len(webLog) :
         webLog[i] = "GET /app/profile with session" => (cookieSet /\ i = Len(webLog))
    /\ (scenario = "webapp" /\ pc = "exit" /\ exitCode = 0) =>
         /\ Len(webLog) > 0 /\ webLog[Len(webLog)] = "GET /app/profile with session"
         /\ httpStatus = StatusOK
         /\ profileBody.json
         /\ profileBody.user_id \notin {Absent, "\"\""}
         /\ profileBody.claims \notin {Absent, "null"}
         /\ profileBody.has_token = "true"

\* C21 witness: a passing run whose redirect chain had more than one turn.
C21_Witness ==
    /\ scenario = "webapp" /\ pc = "exit" /\ exitCode = 0
    /\ redirectCount >= 2
    /\ profileBody.has_token = "true"

\* C22: the JWT test passes only after, in this order, /health answered 200,
\* /api/echo without a token answered 401, a non-empty access token came from
\* the client_credentials grant, /api/echo with the token answered 200 and
\* /api/whoami with the token answered 200 with server_id and headers; a
\* failing step ends the run non-zero and is the last request made.
C22_JwtStepsInOrder ==
    scenario = "jwt" =>
      /\ Len(jwtLog) <= Len(JwtRequests)
      /\ \A i \in 1..Len(jwtLog) : jwtLog[i].req = JwtRequests[i]
      /\ \A i \in 1..Len(jwtLog) :
           LET x == jwtLog[i]
               passed ==
                 /\ x.ok
                 /\ x.status = (IF i = 2 THEN StatusUnauthorized ELSE StatusOK)
                 /\ i = 3 => (x.body.json /\ x.body.fields.access_token # ""
                                /\ accessToken = x.body.fields.access_token)
                 /\ i = 5 => (x.body.json /\ {"server_id", "headers"} \subseteq x.body.fields)
           IN /\ i < Len(jwtLog) => passed
              /\ ~passed => (pc = "exit" /\ exitCode # 0)
              /\ (pc = "exit" /\ exitCode = 0) => passed
      /\ (pc = "exit" /\ exitCode = 0) => Len(jwtLog) = Len(JwtRequests)

\* C22 witness: a run that passed all five tests.
C22_Witness ==
    /\ scenario = "jwt" /\ pc = "exit" /\ exitCode = 0
    /\ Len(jwtLog) = 5
    /\ accessToken = "jwt"

\* The sum of the counts of a distribution map.
RECURSIVE SumOfCounts(_, _)
SumOfCounts(dist, keys) ==
    IF keys = {} THEN 0
    ELSE LET k == CHOOSE x \in keys : TRUE
         IN dist[k] + SumOfCounts(dist, keys \ {k})

\* The requests of the frontend's test that a backend answered.
AnsweredRequests == {i \in 1..Len(answers) : answers[i] \in Backends}

\* C23: a response of /api/test to a call that sent N requests has
\* total_requests = N = success_count + failure_count, distribution counts
\* that sum to success_count, unique_backends equal to the number of distinct
\* backend server IDs that answered, and success iff unique_backends >= 2;
\* the runner that received the response passes iff success is true.
C23_TestResponseConsistent ==
    (scenario = "sc" /\ testResult.produced) =>
      /\ testResult.total_requests = Len(answers)
      /\ testResult.total_requests = testResult.success_count + testResult.failure_count
      /\ testResult.success_count = Cardinality(AnsweredRequests)
      /\ SumOfCounts(testResult.distribution, DOMAIN testResult.distribution)
           = testResult.success_count
      /\ testResult.unique_backends = Cardinality({answers[i] : i \in AnsweredRequests})
      /\ testResult.success <=> testResult.unique_backends >= 2
      /\ (pc = "exit" /\ err # "test_request_failed") =>
           (exitCode = 0 <=> testResult.success)

\* C23 witness: a passing run in which a request failed and two backends
\* answered the others.
C23_Witness ==
    /\ scenario = "sc" /\ pc = "exit" /\ exitCode = 0
    /\ testResult.failure_count = 1
    /\ testResult.unique_backends = 2
    /\ testResult.total_requests = DefaultRequests

\* The worker's log ends with the result of the message it holds.
ResultLogged ==
    /\ Len(logEvents) >= 2
    /\ logEvents[Len(logEvents)].success
    /\ logEvents[Len(logEvents) - 1].job

\* C24: the worker's DeleteMessage comes only after the message's result was
\* logged; when processMessage returns an error the message stays in flight,
\* becomes receivable again only once the 300 s visibility timeout has
\* passed, is received at most 3 times and goes to the dead-letter queue
\* only after the third receive.
C24_DeleteOnlyAfterSuccess ==
    [][/\ (msgState' = "deleted" /\ msgState # "deleted") =>
            (workerPc = "logged" /\ ResultLogged /\ ~deleteFailed')
       /\ (workerPc = "logged" /\ workerPc' # workerPc /\ deleteFailed') =>
            (msgState' = "inflight" /\ receiveCount' = receiveCount)
       /\ (msgState = "inflight" /\ msgState' = "visible") =>
            (hiddenFor >= VisibilityTimeout /\ deleteFailed)
       /\ (msgState = "visible" /\ msgState' = "inflight") => receiveCount' <= 3
       /\ (msgState' = "dlq" /\ msgState # "dlq") => (receiveCount = 3 /\ deleteFailed)
      ]_vars

\* C24 witness: the message failed to be deleted three times and is in the
\* dead-letter queue.
C24_Witness ==
    /\ msgState = "dlq"
    /\ receiveCount = 3
    /\ deleteFailed
    /\ hiddenFor >= 300

\* The reports of the parallel tasks run so far.
ParallelReports == {taskRuns[t].report : t \in 2..Len(taskRuns)}

\* C25: an execution runs InitialStep and then one RunParallelTask for each
\* of item_A, item_B and item_C, at most 5 at a time; it succeeds only when
\* the initial task and every parallel task reported success, it does not
\* fail when every task that ran reported success, and it does not succeed
\* when a task reported a failure.
C25_SucceedsIffAllTasksSucceed ==
    scenario = "statemachine" =>
      /\ Cardinality(RunningIterations) <= MaxConcurrency
      /\ Len(taskRuns) >= 1 => taskRuns[1].state = "InitialStep"
      /\ sfnStatus = "SUCCEEDED" =>
           /\ taskRuns[1].report = "success"
           /\ [i \in 1..Len(iterations) |-> iterations[i].item] = <<"item_A", "item_B", "item_C">>
           /\ Len(taskRuns) = 4
           /\ ParallelReports = {"success"}
      /\ sfnStatus = "FAILED" =>
           \E t \in 1..Len(taskRuns) : taskRuns[t].report = "failure"
      /\ (\E t \in 1..Len(taskRuns) : taskRuns[t].report = "failure") => sfnStatus # "SUCCEEDED"

\* C26: in scheduled mode the execution the temporary rule starts begins at
\* scheduleTime = start of the run + delay or later, strictly inside the
\* interval (scheduleTime - 30 s, scheduleTime + 2 min) the correlation loop
\* accepts, whatever the second of the minute at which the runner started.
C26_ScheduledStartInWindow ==
    (scenario = "scheduled" /\ execs.new.status # "ABSENT") =>
      /\ execs.new.start >= t0
      /\ execs.new.start > t0 - 30
      /\ execs.new.start < t0 + 120

\* C27: the webapp run-e2e.sh without --no-cleanup has run destroy.sh exactly
\* once when it ends, on whichever command it ended, and not before; it ends
\* with the status of the command that failed (0 when none did); with
\* --no-cleanup it never runs destroy.sh.
C27_CleanupOncePerExit ==
    scenario = "e2e" =>
      LET noCleanup == \E i \in 1..Len(e2eArgs) : e2eArgs[i] = "--no-cleanup"
      IN /\ noCleanup => destroyRuns = 0
         /\ pc # "exit" => destroyRuns = 0
         /\ (pc = "exit" /\ ~noCleanup) => destroyRuns = 1
         /\ pc = "exit" =>
              /\ exitCode = commandStatus
              /\ exitCode = 0 <=> (e2eStep = Len(E2eCommands) /\ commandStatus = 0)

\* C27 witness: the test runner failed with status 2, destroy.sh ran once and
\* the script ended with status 2.
C27_Witness ==
    /\ scenario = "e2e" /\ pc = "exit"
    /\ E2eCommands[e2eStep] = "webtest"
    /\ exitCode = 2
    /\ destroyRuns = 1

\* C28: the batch runner reports a timeout only when more than -timeout has
\* passed since the submission and the last status its wait loop observed is
\* not SUCCEEDED or FAILED, and the job status printed with the timeout is
\* that last observed status.
C28_TimeoutSurfacesLastObserved ==
    (scenario = "batch" /\ pc = "exit" /\ err = "DeadlineExceeded") =>
      /\ now - t0 > BatchTimeout
      /\ lastStatus \notin {"SUCCEEDED", "FAILED"}
      /\ surfacedStatus # "" => surfacedStatus = lastStatus

\* The cleanup calls made on the temporary rule, in order.
CleanupOps == [i \in 1..Len(ebLog) |-> ebLog[i].op]

\* C29: in scheduled mode no cleanup call is made while
\* executeViaScheduledTrigger waits and polls; once it has returned after
\* adding the target, the cleanup calls made are exactly RemoveTargets and
\* then DeleteRule, both made before monitorExecution polls; a return before
\* the target was added has made DeleteRule alone, and none when PutRule
\* failed.
C29_DeferredCleanupOnce ==
    scenario = "scheduled" =>
      /\ pc \in {"start", "sched_list_rules", "sched_list_targets", "sched_put_targets",
                 "sched_wait", "sched_list", "sched_sleep"} => ebLog = <<>>
      /\ (ScheduledReturnedWithRule /\ TargetWasAdded) =>
           CleanupOps = <<"RemoveTargets", "DeleteRule">>
      /\ (ScheduledReturnedWithRule /\ ~TargetWasAdded) => CleanupOps = <<"DeleteRule">>
      /\ (pc = "exit" /\ err = "put_rule_failed") => ebLog = <<>>
      /\ \A i \in 1..Len(ebLog) :
           ebLog[i].op = "RemoveTargets" => (i < Len(ebLog) /\ ebLog[i + 1].op = "DeleteRule")

\* C29 witness: the correlated execution is being monitored, and the target
\* was removed and the rule deleted before.
C29_Witness ==
    /\ scenario = "scheduled"
    /\ pc = "monitor_sleep"
    /\ CleanupOps = <<"RemoveTargets", "DeleteRule">>
    /\ ~ruleExists /\ ~targetExists

\* A runner is inside one of its readiness waiters.
Waiting ==
    \/ scenario \in {"sqs", "sc", "jwt"} /\ pc = "start"
    \/ pc = "sc_health"

\* The deadline of the waiter the runner is in.
WaitDeadline == IF scenario = "sqs" THEN 60 ELSE ContextTimeout

\* C30, the state part: a waiter that returned nil last saw its readiness
\* condition (status ACTIVE and a running count above 0; at least 2 backend
\* and 1 frontend tasks running; an answer with status 200), a runner is
\* never inside a waiter a full sleep (5 s) after the deadline, and the
\* timeout error is only raised once the deadline has passed.
WaitersSound ==
    /\ "waitForService" \in ready
         => /\ observed["waitForService"].status = "ACTIVE"
            /\ observed["waitForService"].running > 0
    /\ "waitForServices" \in ready
         => /\ observed["waitForServices"].backend >= 2
            /\ observed["waitForServices"].frontend >= 1
    /\ "waitForHealth" \in ready
         => /\ observed["waitForHealth"].ok
            /\ observed["waitForHealth"].code = 200
    /\ Waiting => now < WaitDeadline + 5
    /\ err = "wait_timeout" => now >= WaitDeadline

\* C30: the readiness waiters return success only when the readiness condition
\* was observed, and a waiter whose condition never holds ends with an error
\* once its deadline has passed: every wait is left.
C30_WaitersReadyOrDeadline ==
    /\ []WaitersSound
    /\ (scenario \in {"sqs", "sc", "jwt"} /\ pc = "start") ~> (pc # "start")
    /\ (pc = "sc_health") ~> (pc # "sc_health")

\* waitForServices returned nil after a turn that slept, and waitForHealth
\* then never saw a 200 and ended with the context's error at the deadline.
C30_Witness ==
    /\ scenario = "sc"
    /\ "waitForServices" \in ready
    /\ observed["waitForHealth"] = [ok |-> TRUE, code |-> 503]
    /\ err = "wait_timeout"
    /\ now >= ContextTimeout

\* C31: when the SQS runner's checkJobInLogs returned true, the worker's log
\* stream holds an event with the job ID at some i and a success marker at some
\* j >= i with no "Processing message:" event lacking the job ID between
\* them: the success marker follows the job ID and belongs to the job's own
\* result block, not to an earlier job's.
C31_SuccessFollowsJobID ==
    (scenario = "sqs" /\ lastStatus = "processed")
      => \E i \in DOMAIN logEvents : \E j \in i..Len(logEvents) :
           /\ logEvents[i].job
           /\ logEvents[j].success
           /\ \A k \in (i + 1)..(j - 1) :
                ~(logEvents[k].processing /\ ~logEvents[k].job)

\* C31 witness: the stream starts with the result block of another job, whose
\* success marker precedes the job ID, and checkJobInLogs returned true on
\* the job's own block after it.
C31_Witness ==
    /\ scenario = "sqs"
    /\ lastStatus = "processed"
    /\ Len(logEvents) >= 6
    /\ logEvents[3].success
    /\ \A i \in 1..3 : ~logEvents[i].job
    /\ logEvents[5].job
    /\ logEvents[6].success

\* C32: in event-triggered mode, once the sent event has started an execution
\* (and no other execution is around), correlation eventually returns that
\* execution's handle, however soon the execution ends; a failing
\* ListExecutions call is left aside.
C32_StartedExecutionCorrelated ==
    (scenario = "eventbridge" /\ execs.new.status # "ABSENT" /\ execs.other.status = "ABSENT")
      ~> (handle = "new" \/ err = "list_error")

\* C33: a task launched by a waitForTaskToken step that has run main to its
\* end has delivered a success or a failure to Step Functions, so its step
\* does not go on waiting for a task that has exited.
C33_ExitedTaskReported ==
    \A t \in 1..Len(taskRuns) :
        taskRuns[t].report # "" => taskRuns[t].report \in {"success", "failure"}

\* C34: a run of the task makes at most one SendTask call, so SendTaskSuccess
\* is never called after SendTaskFailure, nor both in one run.
C34_OneSendTaskCall ==
    \A t \in 1..Len(taskRuns) :
        /\ Len(taskRuns[t].calls) <= 1
        /\ ~({"SendTaskSuccess", "SendTaskFailure"}
               \subseteq {taskRuns[t].calls[i] : i \in 1..Len(taskRuns[t].calls)})

\* C34 witness: the task of InitialStep got an input that is not a JSON
\* object, called SendTaskFailure and nothing else, and the failure arrived.
C34_Witness ==
    /\ scenario = "statemachine"
    /\ Len(taskRuns) >= 1
    /\ ~taskRuns[1].input.object
    /\ taskRuns[1].calls = <<"SendTaskFailure">>
    /\ taskRuns[1].report = "failure"

\* C35 as stated: once cancel() was called the worker makes no ReceiveMessage
\* call, and main eventually returns.
C35_NoReceiveAfterCancel ==
    /\ [][ctxDone => polls' = polls]_vars
    /\ ctxDone ~> (mainPc = "returned")

\* C35, amended: once cancel() was called the worker makes at most one more
\* ReceiveMessage call (when the select had taken its default branch before
\* the cancel), no call delivers a message any more, and main eventually
\* returns, wherever the signal met the loop.
C35_OneLateReceiveAtMost ==
    /\ [](lateCalls <= 1)
    /\ [][(ctxDone /\ polls' # polls) => mainPc = "receive"]_vars
    /\ [][ctxDone => \A m \in WorkerMessages :
                        messages'[m].receives = messages[m].receives]_vars
    /\ ctxDone ~> (mainPc = "returned")

\* C35 witness: the signal came between the select and the call, the call was
\* made with the cancelled context, and main has returned.
C35_Witness ==
    /\ scenario = "worker"
    /\ ctxDone
    /\ lateCalls = 1
    /\ mainPc = "returned"

\* The messages processMessage has handled.
Processed == {m \in DOMAIN messages : messages[m].result.status # ""}

\* C36 as stated: a message whose body does not decode into a JobMessage is
\* logged with status success and the SQS message id as job_id, is deleted
\* (when DeleteMessage does not fail), and is not received a second time.
C36_UnparsedUsesMessageID ==
    \A m \in Processed :
        (~messages[m].body.typed /\ messages[m].failures = 0)
          => /\ messages[m].result.status = "success"
             /\ messages[m].result.job_id = m
             /\ messages[m].state = "deleted"
             /\ messages[m].receives = 1

\* C36, amended: processMessage returns an error only when DeleteMessage
\* failed; whatever the body, the logged status is success, with the job_id
\* that was decoded from the body, or the SQS message id when none was; a
\* message is received again, and reaches the dead-letter queue after three
\* receives, only after failed DeleteMessage calls.
C36_ErrorOnlyFromDelete ==
    \A m \in Processed :
        /\ messages[m].result.status = "success"
        /\ messages[m].result.job_id =
             (IF messages[m].body.jobId = "" THEN m ELSE messages[m].body.jobId)
        /\ messages[m].returned = "error" => messages[m].failures >= 1
        /\ messages[m].returned = "nil" => messages[m].state = "deleted"
        /\ messages[m].receives <= messages[m].failures + 1
        /\ messages[m].state = "dlq" => messages[m].failures >= 3

\* C36 witness: the body of m1 is not a JSON object; it was logged as a
\* success under the message id and deleted after one receive.
C36_Witness ==
    /\ scenario = "worker"
    /\ messages["m1"].body = Body(FALSE, FALSE, "")
    /\ messages["m1"].result = [job_id |-> "m1", status |-> "success",
                                message |-> "Job processed successfully"]
    /\ messages["m1"].returned = "nil"
    /\ messages["m1"].state = "deleted"
    /\ messages["m1"].receives = 1

\* C37: main of an HTTP server logs that the server stopped, and returns,
\* only after server.Shutdown has returned, so a request in flight at the
\* signal is answered (or the 30 seconds have passed) before the process ends.
C37_MainWaitsForShutdown ==
    serverMain \in {"logged_stopped", "exited"}
      => /\ shutdownPc \in {"returned", "timed_out"}
         /\ shutdownPc = "returned" => dropped = 0

\* C38: processJob reads input.Items only at an index i with
\* 0 <= i < len(Items), whatever AWS_BATCH_JOB_ARRAY_INDEX holds, and for an
\* index outside that range the message is "Array index ... out of range".
C38_ItemsReadInRange ==
    LET items == ParseJobInput(jobInput).Items
    IN /\ \A i \in itemsRead : 0 <= i /\ i < Len(items)
       /\ (scenario = "batchworker" /\ pc = "exit" /\ err # "bad_input"
             /\ arrayIndexEnv # "" /\ Len(items) > 0
             /\ ~(Sscanf(arrayIndexEnv) \in 0..(Len(items) - 1)))
            => /\ workerOutput.message # <<>>
               /\ workerOutput.message[1] = "Array index "

\* C39: when the oneoff or batchjobs run-e2e.sh has ended, destroy.sh was run
\* if the script was called without --no-cleanup and apply.sh had been
\* started, and was not run if it was called with --no-cleanup.
C39_DestroyOnEveryExit ==
    (scenario = "e2e_scripts" /\ pc = "exit")
      => /\ (e2eArgs = <<>> /\ e2eStep >= 2) => destroyRuns = 1
         /\ e2eArgs = <<"--no-cleanup">> => destroyRuns = 0

====
